---------------------------- MODULE Spec2Model ----------------------------
(***************************************************************************)
(* Model of the duplicate checker (duplicate_checker_optimized.py):        *)
(* field normalizers, business rules, blocking, the two-stage block        *)
(* worker and the orchestrator UltraFastDuplicateChecker.                  *)
(*                                                                         *)
(* Strings are sequences of one-character atoms.  The non-ASCII letters    *)
(* are written as ASCII atoms: "u:" "a:" "o:" are the lower-case umlauts,  *)
(* "U:" "A:" "O:" the upper-case ones and "sz" is the eszett.              *)
(* A null field (None / NaN) is the value Null.                            *)
(***************************************************************************)
EXTENDS Integers, Sequences, FiniteSets, TLC

VARIABLES
  \* --- normalizer calls (SpecNorm)
  nfn,        \* which normalizer is being exercised: "none", "name", "street", "plz"
  nin,        \* the input string
  nout,       \* results of successive applications: nout[1] = f(nin), nout[2] = f(f(nin))
  nalt,       \* result on the transliterated spelling of nin (<<>> until computed)
  \* --- business rule calls (SpecRules)
  rfn,        \* which rule is being exercised: "none", "zweitname", "date"
  rargs,      \* the four arguments <<x_a, y_a, x_b, y_b>> of the call on (A, B)
  rfwd,       \* one-element sequence with the rule's result on (A, B), empty until evaluated
  rbwd,       \* one-element sequence with the rule's result on (B, A), empty until evaluated
  \* --- one block worker (SpecWorker)
  wargs,      \* the argument tuple of process_block_worker
  wst,        \* the worker's state: stage, loop position, matched_indices, matches
  \* --- the confidence computations (SpecScore)
  sargs,      \* the values a confidence is computed from
  sout,       \* whether the computation has run, and the matches it appended
  \* --- blocking and the orchestrator (SpecBlocks, Spec)
  df,            \* the caller's DataFrame
  cfg,           \* the configuration of the call
  pc,            \* "start", "parallel", "sequential", "done"
  blocking_keys, \* the blocking key of every row, once computed
  blocks,        \* the blocks returned by create_blocks
  futures,       \* the outcome of every submitted block task
  pending,       \* the block tasks whose result is not collected yet
  all_matches,   \* the list of matches collected so far; the result when done
  \* --- the exporter (SpecExport)
  export_rows    \* the rows of the exported table

vars == <<nfn, nin, nout, nalt, rfn, rargs, rfwd, rbwd, wargs, wst, sargs, sout,
          df, cfg, pc, blocking_keys, blocks, futures, pending, all_matches, export_rows>>

normVars == <<nfn, nin, nout, nalt>>
ruleVars == <<rfn, rargs, rfwd, rbwd>>

NormIdle == nfn = "none" /\ nin = <<>> /\ nout = <<>> /\ nalt = <<>>
RulesIdle == rfn = "none" /\ rargs = <<>> /\ rfwd = <<>> /\ rbwd = <<>>
workerVars == <<wargs, wst>>
WorkerIdle == wargs = <<>> /\ wst = <<>>
scoreVars == <<sargs, sout>>
ScoreIdle == sargs = <<>> /\ sout = <<>>
exportVars == <<export_rows>>
ExportIdle == export_rows = <<>>
runVars == <<df, cfg, pc, blocking_keys, blocks, futures, pending, all_matches>>
RunIdle ==
  /\ df = <<>> /\ cfg = <<>> /\ pc = "idle" /\ blocking_keys = <<>>
  /\ blocks = <<>> /\ futures = <<>> /\ pending = {} /\ all_matches = <<>>

(***************************************************************************)
(* Characters and basic string operations (Python str semantics)           *)
(***************************************************************************)
Null == <<"<NA>">>

Digits == {"0", "1", "2", "3", "4", "5", "6", "7", "8", "9"}

AsciiLower == {"a", "b", "c", "d", "e", "f", "g", "h", "i", "j", "k", "l", "m",
               "n", "o", "p", "q", "r", "s", "t", "u", "v", "w", "x", "y", "z"}

IsSpace(c) == c = " "
IsDigit(c) == c \in Digits
IsAsciiLower(c) == c \in AsciiLower

\* str.lower() on one character
LowerChar(c) ==
  CASE c = "A" -> "a" [] c = "B" -> "b" [] c = "C" -> "c" [] c = "D" -> "d" [] c = "E" -> "e"
    [] c = "F" -> "f" [] c = "G" -> "g" [] c = "H" -> "h" [] c = "I" -> "i" [] c = "J" -> "j"
    [] c = "K" -> "k" [] c = "L" -> "l" [] c = "M" -> "m" [] c = "N" -> "n" [] c = "O" -> "o"
    [] c = "P" -> "p" [] c = "Q" -> "q" [] c = "R" -> "r" [] c = "S" -> "s" [] c = "T" -> "t"
    [] c = "U" -> "u" [] c = "V" -> "v" [] c = "W" -> "w" [] c = "X" -> "x" [] c = "Y" -> "y"
    [] c = "Z" -> "z" [] c = "U:" -> "u:" [] c = "A:" -> "a:" [] c = "O:" -> "o:"
    [] OTHER -> c

\* unidecode() on one character: the ASCII transliteration, a string
UnidecodeChar(c) ==
  CASE c = "u:" -> <<"u">> [] c = "a:" -> <<"a">> [] c = "o:" -> <<"o">>
    [] c = "U:" -> <<"U">> [] c = "A:" -> <<"A">> [] c = "O:" -> <<"O">>
    [] c = "sz" -> <<"s", "s">>
    [] OTHER -> <<c>>

RECURSIVE Flatten(_)
Flatten(ss) == IF ss = <<>> THEN <<>> ELSE Head(ss) \o Flatten(Tail(ss))

Lower(s) == [i \in 1..Len(s) |-> LowerChar(s[i])]

Unidecode(s) == Flatten([i \in 1..Len(s) |-> UnidecodeChar(s[i])])

\* str.replace(c, rep) for a one-character pattern
ReplaceChar(s, c, rep) == Flatten([i \in 1..Len(s) |-> IF s[i] = c THEN rep ELSE <<s[i]>>])

RECURSIVE LStrip(_)
LStrip(s) == IF s # <<>> /\ IsSpace(Head(s)) THEN LStrip(Tail(s)) ELSE s

RECURSIVE RStrip(_)
RStrip(s) == IF s # <<>> /\ IsSpace(s[Len(s)]) THEN RStrip(SubSeq(s, 1, Len(s) - 1)) ELSE s

\* str.strip()
Strip(s) == RStrip(LStrip(s))

\* re.sub(r'\s+', ' ', s)
CollapseWs(s) ==
  Flatten([i \in 1..Len(s) |->
             IF IsSpace(s[i]) THEN (IF i > 1 /\ IsSpace(s[i - 1]) THEN <<>> ELSE <<" ">>)
                              ELSE <<s[i]>>])

\* re.sub(r'\D', '', s)
OnlyDigits(s) == Flatten([i \in 1..Len(s) |-> IF IsDigit(s[i]) THEN <<s[i]>> ELSE <<>>])

\* re.sub(r'[^a-z\s]', '', s)
OnlyLettersAndSpace(s) ==
  Flatten([i \in 1..Len(s) |-> IF IsAsciiLower(s[i]) \/ IsSpace(s[i]) THEN <<s[i]>> ELSE <<>>])

\* str.zfill(width) on a string without sign
RECURSIVE ZFill(_, _)
ZFill(s, width) == IF Len(s) >= width THEN s ELSE ZFill(<<"0">> \o s, width)

\* s[:n]
Prefix(s, n) == SubSeq(s, 1, IF Len(s) < n THEN Len(s) ELSE n)

\* fillna('').astype(str)
FillNa(s) == IF s = Null THEN <<>> ELSE s

(***************************************************************************)
(* VectorizedAddressNormalizer                                             *)
(***************************************************************************)
PlzWidth == 5

\* a variant without the zero padding
normalize_plz_unpadded(plz) == Prefix(OnlyDigits(FillNa(plz)), PlzWidth)

normalize_plz_vectorized(plz) == Prefix(ZFill(OnlyDigits(FillNa(plz)), PlzWidth), PlzWidth)

\* the wildcard of a regular expression ('.' in 'str.$')
AnyChar == "<any>"

\* suffix_map, in insertion order; each key is used as the regex key + '$'
suffix_map ==
  << <<<<"s", "t", "r", AnyChar>>, <<"s", "t", "r", "a", "s", "s", "e">>>>,
     <<<<"s", "t", "r", "a", "sz", "e">>, <<"s", "t", "r", "a", "s", "s", "e">>>>,
     <<<<"s", "t", "r">>, <<"s", "t", "r", "a", "s", "s", "e">>>>,
     <<<<"w", "e", "g">>, <<"w", "e", "g">>>>,
     <<<<"a", "l", "l", "e", "e">>, <<"a", "l", "l", "e", "e">>>>,
     <<<<"p", "l", "a", "t", "z">>, <<"p", "l", "a", "t", "z">>>>,
     <<<<"g", "a", "s", "s", "e">>, <<"g", "a", "s", "s", "e">>>>,
     <<<<"r", "i", "n", "g">>, <<"r", "i", "n", "g">>>> >>

\* does the regex pat + '$' match at the end of s
MatchesAtEnd(s, pat) ==
  /\ Len(s) >= Len(pat)
  /\ \A k \in 1..Len(pat) : pat[k] = AnyChar \/ s[Len(s) - Len(pat) + k] = pat[k]

\* str.replace(f'{old}$', new, regex=True)
ReplaceSuffix(s, pat, new) ==
  IF MatchesAtEnd(s, pat) THEN SubSeq(s, 1, Len(s) - Len(pat)) \o new ELSE s

\* the loop over suffix_map: every entry is applied, one after the other
RECURSIVE ApplySuffixMap(_, _)
ApplySuffixMap(s, k) ==
  IF k > Len(suffix_map) THEN s
  ELSE ApplySuffixMap(ReplaceSuffix(s, suffix_map[k][1], suffix_map[k][2]), k + 1)

\* length of the longest suffix of s whose characters all satisfy the class
RECURSIVE TrailingRun(_, _)
TrailingRun(s, class) ==
  IF s # <<>> /\ s[Len(s)] \in class THEN 1 + TrailingRun(SubSeq(s, 1, Len(s) - 1), class) ELSE 0

RECURSIVE LeadingRun(_, _)
LeadingRun(s, class) ==
  IF s # <<>> /\ Head(s) \in class THEN 1 + LeadingRun(Tail(s), class) ELSE 0

DropLast(s, n) == SubSeq(s, 1, Len(s) - n)
DropFirst(s, n) == SubSeq(s, n + 1, Len(s))

\* re.sub(r'\s+\d+[a-z]*$', '', s)
StripTrailingHouseNumber(s) ==
  LET nl == TrailingRun(s, AsciiLower)
      nd == TrailingRun(DropLast(s, nl), Digits)
      ns == TrailingRun(DropLast(s, nl + nd), {" "})
  IN IF nd >= 1 /\ ns >= 1 THEN DropLast(s, nl + nd + ns) ELSE s

\* re.sub(r'^\d+[a-z]*\s+', '', s)
StripLeadingHouseNumber(s) ==
  LET nd == LeadingRun(s, Digits)
      nl == LeadingRun(DropFirst(s, nd), AsciiLower)
      ns == LeadingRun(DropFirst(s, nd + nl), {" "})
  IN IF nd >= 1 /\ ns >= 1 THEN DropFirst(s, nd + nl + ns) ELSE s

normalize_street_vectorized(street) ==
  Strip(CollapseWs(OnlyLettersAndSpace(Unidecode(ReplaceChar(
    StripLeadingHouseNumber(StripTrailingHouseNumber(
      ApplySuffixMap(Lower(Strip(FillNa(street))), 1))),
    "sz", <<"s", "s">>)))))

\* normalize_name without the replacement of the umlauts before unidecode
normalize_name_without_umlauts(name) ==
  Strip(CollapseWs(Unidecode(ReplaceChar(Lower(Strip(FillNa(name))), "sz", <<"s", "s">>))))

(***************************************************************************)
(* OptimizedFuzzyMatcher.normalize_name                                    *)
(***************************************************************************)
\* the replacements of eszett and the umlauts, in the order of the code
replace_umlauts(name) ==
  ReplaceChar(ReplaceChar(ReplaceChar(ReplaceChar(name,
    "sz", <<"s", "s">>), "u:", <<"u", "e">>), "a:", <<"a", "e">>), "o:", <<"o", "e">>)

normalize_name(name) ==
  IF name = Null THEN <<>>
  ELSE Strip(CollapseWs(Unidecode(replace_umlauts(Lower(Strip(name))))))

(***************************************************************************)
(* FastBusinessRules                                                       *)
(***************************************************************************)
\* Python None as the result of a year parser
NoYear == -1

DigitVal(c) ==
  CASE c = "0" -> 0 [] c = "1" -> 1 [] c = "2" -> 2 [] c = "3" -> 3 [] c = "4" -> 4
    [] c = "5" -> 5 [] c = "6" -> 6 [] c = "7" -> 7 [] c = "8" -> 8 [] c = "9" -> 9

\* int() of a string of decimal digits
RECURSIVE ToInt(_)
ToInt(ds) == IF ds = <<>> THEN 0 ELSE 10 * ToInt(SubSeq(ds, 1, Len(ds) - 1)) + DigitVal(ds[Len(ds)])

YearDigits == 4

\* pd.isna(x) or str(x).strip() == ''
IsBlank(x) == x = Null \/ Strip(x) = <<>>

\* re.search(r'(\d{4})', s): the first four consecutive digits
year_starts(s) ==
  {k \in 1..(Len(s) - YearDigits + 1) : \A d \in 0..(YearDigits - 1) : IsDigit(s[k + d])}

\* int(match.group(1)) of the leftmost match, None without a match
year_at(s, k) == ToInt(SubSeq(s, k, k + YearDigits - 1))

first_year(s, starts) ==
  IF starts = {} THEN NoYear
  ELSE year_at(s, CHOOSE m \in starts : \A n \in starts : m <= n)

extract_year(date_str) ==
  IF IsBlank(date_str) THEN NoYear
  ELSE first_year(Strip(date_str), year_starts(Strip(date_str)))

\* int(float(str(jahrgang).strip())) inside try/except: digits with an optional
\* fractional part; anything else raises and leaves None
int_of_float(s, ni, rest) ==
  IF ni >= 1 /\ rest = <<>> THEN ToInt(s)
  ELSE IF ni >= 1 /\ Head(rest) = "." /\ LeadingRun(Tail(rest), Digits) = Len(rest) - 1
       THEN ToInt(SubSeq(s, 1, ni))
  ELSE NoYear

parse_jahrgang(jahrgang) ==
  IF IsBlank(jahrgang) THEN NoYear
  ELSE int_of_float(Strip(jahrgang), LeadingRun(Strip(jahrgang), Digits),
                    DropFirst(Strip(jahrgang), LeadingRun(Strip(jahrgang), Digits)))

\* truth value of an Optional[int]: None and 0 are false
Truthy(y) == y # NoYear /\ y # 0

\* year_x if year_x else jg_x
effective_year(year, jg) == IF Truthy(year) THEN year ELSE jg

\* the comparison of the two effective years (lines 299-304)
date_verdict(effective_a, effective_b) ==
  IF Truthy(effective_a) /\ Truthy(effective_b) THEN effective_a = effective_b
  ELSE IF effective_a = NoYear /\ effective_b = NoYear THEN TRUE
  ELSE FALSE

check_date_rule(geburtstag_a, jahrgang_a, geburtstag_b, jahrgang_b) ==
  date_verdict(effective_year(extract_year(geburtstag_a), parse_jahrgang(jahrgang_a)),
               effective_year(extract_year(geburtstag_b), parse_jahrgang(jahrgang_b)))

\* a variant that keeps the letter case of the field
NormRuleField_case_kept(x) == IF x = Null THEN <<>> ELSE Strip(x)

\* str(x).strip().lower() if not pd.isna(x) else ''
NormRuleField(x) == IF x = Null THEN <<>> ELSE Lower(Strip(x))

\* str.endswith
EndsWith(s, suffix) ==
  Len(s) >= Len(suffix) /\ SubSeq(s, Len(s) - Len(suffix) + 1, Len(s)) = suffix

\* the three cases of the rule on the normalized fields (lines 257-273)
zweitname_verdict(norm_name_a, norm_name2_a, norm_name_b, norm_name2_b) ==
  IF norm_name2_a # <<>> /\ norm_name2_b # <<>> THEN norm_name2_a = norm_name2_b
  ELSE IF norm_name2_a = <<>> /\ norm_name2_b = <<>> THEN TRUE
  ELSE IF norm_name2_a # <<>> /\ norm_name2_b = <<>> THEN EndsWith(norm_name_b, norm_name2_a)
  ELSE IF norm_name2_b # <<>> /\ norm_name2_a = <<>> THEN EndsWith(norm_name_a, norm_name2_b)
  ELSE TRUE

\* a variant that tests the suffix against the record's own name
check_zweitname_own_name(name_a, name2_a, name_b, name2_b) ==
  LET norm_name_a == NormRuleField(name_a)
      norm_name2_a == NormRuleField(name2_a)
      norm_name_b == NormRuleField(name_b)
      norm_name2_b == NormRuleField(name2_b)
  IN IF norm_name2_a # <<>> /\ norm_name2_b # <<>> THEN norm_name2_a = norm_name2_b
     ELSE IF norm_name2_a = <<>> /\ norm_name2_b = <<>> THEN TRUE
     ELSE IF norm_name2_a # <<>> THEN EndsWith(norm_name_b, norm_name2_a)
     ELSE EndsWith(norm_name_b, norm_name2_b)

check_zweitname(name_a, name2_a, name_b, name2_b) ==
  zweitname_verdict(NormRuleField(name_a), NormRuleField(name2_a),
                    NormRuleField(name_b), NormRuleField(name2_b))

(***************************************************************************)
(* Exact rational arithmetic for scores and confidences: a number is a     *)
(* reduced fraction <<numerator, denominator>> with a positive denominator *)
(***************************************************************************)
RECURSIVE Gcd(_, _)
Gcd(a, b) == IF b = 0 THEN a ELSE Gcd(b, a % b)

Frac(n, d) == LET g == Gcd(IF n < 0 THEN -n ELSE n, d) IN <<n \div g, d \div g>>

FracInt(n) == <<n, 1>>
FracAdd(a, b) == Frac(a[1] * b[2] + b[1] * a[2], a[2] * b[2])
FracScale(k, a) == Frac(k * a[1], a[2])
FracHalf(a) == Frac(a[1], 2 * a[2])
FracLt(a, b) == a[1] * b[2] < b[1] * a[2]
FracLe(a, b) == a[1] * b[2] <= b[1] * a[2]
FracMax(a, b) == IF FracLt(a, b) THEN b ELSE a
FracMin(a, b) == IF FracLt(b, a) THEN b ELSE a

(***************************************************************************)
(* rapidfuzz fuzz.QRatio / 100: the normalized Indel similarity            *)
(*   2 * LCS(s, t) / (len(s) + len(t)),  0 when either string is empty     *)
(***************************************************************************)
\* one row of the longest-common-subsequence table: row[k] is the LCS length
\* of the first i characters of s and the first k - 1 characters of t
RECURSIVE LcsRow(_, _, _, _)
LcsRow(prev, c, t, acc) ==
  LET k == Len(acc)
  IN IF k > Len(t) THEN acc
     ELSE LET v == IF t[k] = c THEN prev[k] + 1
                   ELSE IF prev[k + 1] >= acc[k] THEN prev[k + 1] ELSE acc[k]
          IN LcsRow(prev, c, t, Append(acc, v))

RECURSIVE LcsRows(_, _, _, _)
LcsRows(s, t, i, prev) ==
  IF i > Len(s) THEN prev ELSE LcsRows(s, t, i + 1, LcsRow(prev, s[i], t, <<0>>))

Lcs(s, t) == LcsRows(s, t, 1, [k \in 1..(Len(t) + 1) |-> 0])[Len(t) + 1]

QRatio(s, t) == IF s = <<>> \/ t = <<>> THEN FracInt(0) ELSE Frac(2 * Lcs(s, t), Len(s) + Len(t))

(***************************************************************************)
(* get_cologne_phonetic: the Cologne phonetic code of the first word       *)
(***************************************************************************)
Vowels == {"a", "e", "i", "j", "o", "u", "y"}

\* the code digits of the letter at position k of the word w
CologneChar(w, k) ==
  LET c == w[k]
      prev == IF k > 1 THEN w[k - 1] ELSE ""
      next == IF k < Len(w) THEN w[k + 1] ELSE ""
  IN CASE c \in Vowels -> <<"0">>
       [] c = "b" -> <<"1">>
       [] c = "p" -> IF next = "h" THEN <<"3">> ELSE <<"1">>
       [] c \in {"d", "t"} -> IF next \in {"c", "s", "z"} THEN <<"8">> ELSE <<"2">>
       [] c \in {"f", "v", "w"} -> <<"3">>
       [] c \in {"g", "k", "q"} -> <<"4">>
       [] c = "c" -> IF k = 1
                     THEN (IF next \in {"a", "h", "k", "l", "o", "q", "r", "u", "x"}
                           THEN <<"4">> ELSE <<"8">>)
                     ELSE IF prev \in {"s", "z"} THEN <<"8">>
                     ELSE IF next \in {"a", "h", "k", "o", "q", "u", "x"} THEN <<"4">>
                     ELSE <<"8">>
       [] c = "x" -> IF prev \in {"c", "k", "q"} THEN <<"8">> ELSE <<"4", "8">>
       [] c = "l" -> <<"5">>
       [] c \in {"m", "n"} -> <<"6">>
       [] c = "r" -> <<"7">>
       [] c \in {"s", "z"} -> <<"8">>
       [] OTHER -> <<>>

\* drop a digit equal to its predecessor
DropRepeats(ds) ==
  Flatten([k \in 1..Len(ds) |-> IF k > 1 /\ ds[k] = ds[k - 1] THEN <<>> ELSE <<ds[k]>>])

\* drop every "0" except a leading one
DropInnerZeros(ds) ==
  Flatten([k \in 1..Len(ds) |-> IF k > 1 /\ ds[k] = "0" THEN <<>> ELSE <<ds[k]>>])

\* the first word: up to the first space or hyphen
FirstWord(s) ==
  LET seps == {k \in 1..Len(s) : s[k] \in {" ", "-"}}
  IN IF seps = {} THEN s
     ELSE SubSeq(s, 1, (CHOOSE m \in seps : \A n \in seps : m <= n) - 1)

\* the library writes umlauts as two letters and the eszett as one s
ColognePrepare(s) ==
  LET s1 == ReplaceChar(s, "u:", <<"u", "e">>)
      s2 == ReplaceChar(s1, "a:", <<"a", "e">>)
      s3 == ReplaceChar(s2, "o:", <<"o", "e">>)
  IN ReplaceChar(s3, "sz", <<"s">>)

\* the digits of every letter of the prepared word, before the clean-up
CologneDigits(word) == Flatten([k \in 1..Len(word) |-> CologneChar(word, k)])

get_cologne_phonetic(name) ==
  IF IsBlank(name) THEN <<>>
  ELSE DropInnerZeros(DropRepeats(CologneDigits(ColognePrepare(Lower(FirstWord(Strip(name)))))))

(***************************************************************************)
(* OptimizedFuzzyMatcher.compare_names                                     *)
(***************************************************************************)
\* the record returned for the two scores (lines 362-371)
name_results_of(normal_score, swapped_score) ==
  [best_score |-> FracMax(normal_score, swapped_score),
   is_swapped |-> FracLt(normal_score, swapped_score),
   normal_score |-> normal_score, swapped_score |-> swapped_score]

\* (QRatio(x_a, x_b) / 100 + QRatio(y_a, y_b) / 100) / 2
pair_score(x_a, x_b, y_a, y_b) == FracHalf(FracAdd(QRatio(x_a, x_b), QRatio(y_a, y_b)))

\* compare_names on the normalized names (lines 349-371)
compare_normalized(v_a, n_a, v_b, n_b) ==
  IF v_a = <<>> \/ n_a = <<>> \/ v_b = <<>> \/ n_b = <<>>
  THEN [best_score |-> FracInt(0), is_swapped |-> FALSE,
        normal_score |-> FracInt(0), swapped_score |-> FracInt(0)]
  ELSE name_results_of(pair_score(v_a, v_b, n_a, n_b), pair_score(v_a, n_b, n_a, v_b))

compare_names(vorname_a, name_a, vorname_b, name_b) ==
  compare_normalized(normalize_name(vorname_a), normalize_name(name_a),
                     normalize_name(vorname_b), normalize_name(name_b))

(***************************************************************************)
(* process_block_worker: the two-stage matching of one block               *)
(*                                                                         *)
(* block_data is a sequence of [index |-> original row index, rec |-> the  *)
(* record]; positions are 1-based where the code's are 0-based.  The state *)
(* of a worker is a record: the stage, the pair (i, j) the loops are at,   *)
(* matched_indices, the matches list, and the set of pairs stage 2 has     *)
(* evaluated (reached the rule checks for) as a history.                   *)
(***************************************************************************)
address_fields == <<"Strasse", "HausNummer", "Plz", "Ort">>

\* str(x) of a field value: None prints as 'None'
PyStr(x) == IF x = Null THEN <<"N", "o", "n", "e">> ELSE x

\* str(record.get(field, '')).strip().lower()
AddressValue(rec, field) == Lower(Strip(PyStr(rec[field])))

total_address_fields(rec_a, rec_b) ==
  Cardinality({k \in 1..Len(address_fields) :
                 /\ AddressValue(rec_a, address_fields[k]) # <<>>
                 /\ AddressValue(rec_b, address_fields[k]) # <<>>})

address_matches(rec_a, rec_b) ==
  Cardinality({k \in 1..Len(address_fields) :
                 /\ AddressValue(rec_a, address_fields[k]) # <<>>
                 /\ AddressValue(rec_b, address_fields[k]) # <<>>
                 /\ AddressValue(rec_a, address_fields[k]) = AddressValue(rec_b, address_fields[k])})

\* address_matches / max(total_address_fields, 1)
ratio_of(matching, total) == Frac(matching, IF total > 1 THEN total ELSE 1)

address_ratio(rec_a, rec_b) ==
  ratio_of(address_matches(rec_a, rec_b), total_address_fields(rec_a, rec_b))

\* the two gates shared by both stages
RulesPass(rec_a, rec_b) ==
  /\ check_zweitname(rec_a.Name, rec_a.Name2, rec_b.Name, rec_b.Name2)
  /\ check_date_rule(rec_a.Geburtstag, rec_a.Jahrgang, rec_b.Geburtstag, rec_b.Jahrgang)

ExactTypes == {"exact_normal", "exact_swapped"}
FuzzyTypes == {"fuzzy_normal", "fuzzy_swapped"}
PhoneticTypes == {"phonetic_assisted_normal", "phonetic_assisted_swapped"}

\* best_score of a match whose details carry no name_results
NoScore == FracInt(-1)

ExactNormalBase == 90
ExactSwappedBase == 85
ExactAddressWeight == 10

\* an exact match whose swapped kind starts at the base of the
\* phonetic-assisted swapped kind
Stage1Emit_swapped_base_70(a_index, b_index, is_exact_normal, ratio) ==
  <<[record_a_idx |-> a_index, record_b_idx |-> b_index,
     confidence_score |-> FracAdd(FracInt(IF is_exact_normal THEN ExactNormalBase ELSE 70),
                                  FracScale(ExactAddressWeight, ratio)),
     match_type |-> IF is_exact_normal THEN "exact_normal" ELSE "exact_swapped",
     best_score |-> NoScore, address_ratio |-> ratio]>>

\* stage 1, from the address ratio on: the exact match that is appended
Stage1Emit(a_index, b_index, is_exact_normal, ratio) ==
  <<[record_a_idx |-> a_index, record_b_idx |-> b_index,
     confidence_score |-> FracAdd(FracInt(IF is_exact_normal THEN ExactNormalBase ELSE ExactSwappedBase),
                                  FracScale(ExactAddressWeight, ratio)),
     match_type |-> IF is_exact_normal THEN "exact_normal" ELSE "exact_swapped",
     best_score |-> NoScore, address_ratio |-> ratio]>>

\* a stage 1 without the test for empty names
Stage1Names_empty_allowed(a_index, b_index, v_a_norm, n_a_norm, v_b_norm, n_b_norm, ratio) ==
  LET is_exact_normal == v_a_norm = v_b_norm /\ n_a_norm = n_b_norm
      is_exact_swapped == v_a_norm = n_b_norm /\ n_a_norm = v_b_norm
  IN IF is_exact_normal \/ is_exact_swapped
       THEN Stage1Emit(a_index, b_index, is_exact_normal, ratio)
     ELSE <<>>

\* stage 1: the match of the pair, as a sequence of zero or one matches
\* stage 1 on the normalized names of a pair that passed the rules (lines 422-469)
Stage1Names(a_index, b_index, v_a_norm, n_a_norm, v_b_norm, n_b_norm, ratio) ==
  LET is_exact_normal == v_a_norm = v_b_norm /\ n_a_norm = n_b_norm
      is_exact_swapped == v_a_norm = n_b_norm /\ n_a_norm = v_b_norm
  IN IF v_a_norm = <<>> \/ n_a_norm = <<>> \/ v_b_norm = <<>> \/ n_b_norm = <<>> THEN <<>>
     ELSE IF is_exact_normal \/ is_exact_swapped
       THEN Stage1Emit(a_index, b_index, is_exact_normal, ratio)
     ELSE <<>>

Stage1Match(a, b) ==
  IF ~RulesPass(a.rec, b.rec) THEN <<>>
  ELSE Stage1Names(a.index, b.index,
                   normalize_name(a.rec.Vorname), normalize_name(a.rec.Name),
                   normalize_name(b.rec.Vorname), normalize_name(b.rec.Name),
                   address_ratio(a.rec, b.rec))

PhoneticFloor == Frac(60, 100)
PhoneticBoost == Frac(72, 100)
PhoneticNormalBase == 72
PhoneticSwappedBase == 70
PhoneticAddressWeight == 10
FuzzyNameWeight == 50
FuzzyAddressWeight == 30
SwapPenalty == 5
FuzzyCap == 95

\* a phonetic-assisted confidence whose address bonus uses the fuzzy weight
stage2_confidence_phonetic_weight30(best_score, is_swapped, phonetic_assisted, ratio) ==
  IF phonetic_assisted
  THEN FracAdd(FracInt(IF is_swapped THEN PhoneticSwappedBase ELSE PhoneticNormalBase),
               FracScale(FuzzyAddressWeight, ratio))
  ELSE LET raw == FracAdd(FracScale(FuzzyNameWeight, best_score), FracScale(FuzzyAddressWeight, ratio))
       IN FracMin(IF is_swapped THEN FracAdd(raw, FracInt(-SwapPenalty)) ELSE raw, FracInt(FuzzyCap))

\* the confidence of a stage-2 match
stage2_confidence(best_score, is_swapped, phonetic_assisted, ratio) ==
  IF phonetic_assisted
  THEN FracAdd(FracInt(IF is_swapped THEN PhoneticSwappedBase ELSE PhoneticNormalBase),
               FracScale(PhoneticAddressWeight, ratio))
  ELSE LET raw == FracAdd(FracScale(FuzzyNameWeight, best_score), FracScale(FuzzyAddressWeight, ratio))
       IN FracMin(IF is_swapped THEN FracAdd(raw, FracInt(-SwapPenalty)) ELSE raw, FracInt(FuzzyCap))

\* a variant whose phonetic fallback starts above 0.60 instead of at 0.60
name_decision_floor_exclusive(name_results, v_a_phon, n_a_phon, v_b_phon, n_b_phon, fuzzy_threshold) ==
  LET all_codes == v_a_phon # <<>> /\ n_a_phon # <<>> /\ v_b_phon # <<>> /\ n_b_phon # <<>>
      phonetic_match_normal == all_codes /\ v_a_phon = v_b_phon /\ n_a_phon = n_b_phon
      phonetic_match_swapped == all_codes /\ v_a_phon = n_b_phon /\ n_a_phon = v_b_phon
  IN IF ~FracLt(name_results.best_score, fuzzy_threshold)
     THEN [accepted |-> TRUE, best_score |-> name_results.best_score,
           is_swapped |-> name_results.is_swapped, phonetic_assisted |-> FALSE]
     ELSE IF FracLt(PhoneticFloor, name_results.best_score)
               /\ (phonetic_match_normal \/ phonetic_match_swapped)
     THEN [accepted |-> TRUE, best_score |-> PhoneticBoost,
           is_swapped |-> phonetic_match_swapped, phonetic_assisted |-> TRUE]
     ELSE [accepted |-> FALSE, best_score |-> name_results.best_score,
           is_swapped |-> name_results.is_swapped, phonetic_assisted |-> FALSE]

\* the name decision of stage 2: accepted or not, and the effective
\* name_results after the phonetic fallback
name_decision(name_results, v_a_phon, n_a_phon, v_b_phon, n_b_phon, fuzzy_threshold) ==
  LET all_codes == v_a_phon # <<>> /\ n_a_phon # <<>> /\ v_b_phon # <<>> /\ n_b_phon # <<>>
      phonetic_match_normal == all_codes /\ v_a_phon = v_b_phon /\ n_a_phon = n_b_phon
      phonetic_match_swapped == all_codes /\ v_a_phon = n_b_phon /\ n_a_phon = v_b_phon
  IN IF ~FracLt(name_results.best_score, fuzzy_threshold)
     THEN [accepted |-> TRUE, best_score |-> name_results.best_score,
           is_swapped |-> name_results.is_swapped, phonetic_assisted |-> FALSE]
     ELSE IF FracLe(PhoneticFloor, name_results.best_score)
               /\ (phonetic_match_normal \/ phonetic_match_swapped)
     THEN [accepted |-> TRUE, best_score |-> PhoneticBoost,
           is_swapped |-> phonetic_match_swapped, phonetic_assisted |-> TRUE]
     ELSE [accepted |-> FALSE, best_score |-> name_results.best_score,
           is_swapped |-> name_results.is_swapped, phonetic_assisted |-> FALSE]

\* lines 504-537 on the two records of a pair
Stage2Names(a, b, fuzzy_threshold) ==
  name_decision(compare_names(a.rec.Vorname, a.rec.Name, b.rec.Vorname, b.rec.Name),
                get_cologne_phonetic(a.rec.Vorname), get_cologne_phonetic(a.rec.Name),
                get_cologne_phonetic(b.rec.Vorname), get_cologne_phonetic(b.rec.Name),
                fuzzy_threshold)

\* stage 2, from the confidence computation on: the match is appended iff its
\* confidence reaches the threshold
stage2_match_type(is_swapped, phonetic_assisted) ==
  IF phonetic_assisted
  THEN (IF is_swapped THEN "phonetic_assisted_swapped" ELSE "phonetic_assisted_normal")
  ELSE (IF is_swapped THEN "fuzzy_swapped" ELSE "fuzzy_normal")

\* a variant that emits only above the threshold
emit_if_above(a_index, b_index, names, ratio, confidence, confidence_threshold) ==
  IF FracLt(confidence_threshold, confidence)
  THEN <<[record_a_idx |-> a_index, record_b_idx |-> b_index,
          confidence_score |-> confidence,
          match_type |-> stage2_match_type(names.is_swapped, names.phonetic_assisted),
          best_score |-> names.best_score, address_ratio |-> ratio]>>
  ELSE <<>>

\* lines 588-600: the test against the threshold and the appended match
emit_if_confident(a_index, b_index, names, ratio, confidence, confidence_threshold) ==
  IF FracLe(confidence_threshold, confidence)
  THEN <<[record_a_idx |-> a_index, record_b_idx |-> b_index,
          confidence_score |-> confidence,
          match_type |-> stage2_match_type(names.is_swapped, names.phonetic_assisted),
          best_score |-> names.best_score, address_ratio |-> ratio]>>
  ELSE <<>>

Stage2Emit(a_index, b_index, names, ratio, confidence_threshold) ==
  emit_if_confident(a_index, b_index, names, ratio,
                    stage2_confidence(names.best_score, names.is_swapped, names.phonetic_assisted, ratio),
                    confidence_threshold)

\* stage 2: the match of an evaluated pair, as a sequence of zero or one matches
\* a pair whose names were neither similar enough nor rescued is skipped
Stage2Accepted(a_index, b_index, names, ratio, confidence_threshold) ==
  IF ~names.accepted THEN <<>>
  ELSE Stage2Emit(a_index, b_index, names, ratio, confidence_threshold)

Stage2Match(a, b, confidence_threshold, fuzzy_threshold) ==
  IF ~RulesPass(a.rec, b.rec) THEN <<>>
  ELSE Stage2Accepted(a.index, b.index, Stage2Names(a, b, fuzzy_threshold),
                      address_ratio(a.rec, b.rec), confidence_threshold)

\* a stage 1 that forgets to record the matched positions
mark_matched_forgotten(matched_indices, i, j) == matched_indices

\* a stage 1 that marks only the first position of an exact pair
mark_matched_first_only(matched_indices, i, j) == matched_indices \cup {i}

\* matched_indices.add(i); matched_indices.add(j)
mark_matched(matched_indices, i, j) == matched_indices \cup {i, j}

\* a stage 2 that tests only the first position of a pair
stage2_skips_first_only(matched_indices, i, j) == i \in matched_indices

\* the skip tests of stage 2
stage2_skips(matched_indices, i, j) == i \in matched_indices \/ j \in matched_indices

\* the state before the first loop; a block of fewer than two records returns at once
WorkerStart(block_data) ==
  [stage |-> IF Len(block_data) < 2 THEN "done" ELSE "stage1",
   i |-> 1, j |-> 2, matched_indices |-> {}, matches |-> <<>>, evaluated |-> {}]

\* the next pair of the nested loops, or the next stage after the last pair
Advance(w, block_size, after) ==
  IF w.j < block_size THEN [w EXCEPT !.j = w.j + 1]
  ELSE IF w.i + 1 < block_size THEN [w EXCEPT !.i = w.i + 1, !.j = w.i + 2]
  ELSE [w EXCEPT !.stage = after, !.i = 1, !.j = 2]

\* one iteration of the inner loop of stage 1
\* lines 459-473: the match is appended and its two positions are marked
Stage1Record(w, found) ==
  IF found = <<>> THEN w
  ELSE [w EXCEPT !.matches = w.matches \o found,
                 !.matched_indices = mark_matched(w.matched_indices, w.i, w.j)]

\* a stage 1 that passes over a pair with a position that is already marked
Stage1Step_skips_consumed(w, block_data) ==
  Advance(IF stage2_skips(w.matched_indices, w.i, w.j) THEN w
          ELSE Stage1Record(w, Stage1Match(block_data[w.i], block_data[w.j])),
          Len(block_data), "stage2")

Stage1Step(w, block_data) ==
  Advance(Stage1Record(w, Stage1Match(block_data[w.i], block_data[w.j])), Len(block_data), "stage2")

\* one iteration of the inner loop of stage 2
\* stage 2 on a pair it does not skip
Stage2Record(w, a, b, confidence_threshold, fuzzy_threshold) ==
  [w EXCEPT !.matches = w.matches \o Stage2Match(a, b, confidence_threshold, fuzzy_threshold),
            !.evaluated = w.evaluated \cup {<<a.index, b.index>>}]

Stage2Step(w, block_data, confidence_threshold, fuzzy_threshold) ==
  Advance(IF stage2_skips(w.matched_indices, w.i, w.j) THEN w
          ELSE Stage2Record(w, block_data[w.i], block_data[w.j], confidence_threshold, fuzzy_threshold),
          Len(block_data), "done")

WorkerStep(w, block_data, confidence_threshold, fuzzy_threshold) ==
  IF w.stage = "stage1" THEN Stage1Step(w, block_data)
  ELSE Stage2Step(w, block_data, confidence_threshold, fuzzy_threshold)

RECURSIVE RunWorker(_, _, _, _)
RunWorker(w, block_data, confidence_threshold, fuzzy_threshold) ==
  IF w.stage = "done" THEN w
  ELSE RunWorker(WorkerStep(w, block_data, confidence_threshold, fuzzy_threshold),
                 block_data, confidence_threshold, fuzzy_threshold)

\* the list returned by process_block_worker((block_data, confidence_threshold, fuzzy_threshold))
process_block_worker(block_data, confidence_threshold, fuzzy_threshold) ==
  RunWorker(WorkerStart(block_data), block_data, confidence_threshold, fuzzy_threshold).matches

(***************************************************************************)
(* OptimizedBlockingStrategy / PhoneticBlockingStrategy                    *)
(*                                                                         *)
(* A DataFrame is a sequence of records; the row at position k has the     *)
(* index k - 1.                                                            *)
(***************************************************************************)
Lit_no_address == <<"n", "o", "_", "a", "d", "d", "r", "e", "s", "s">>
Lit_plz_only == <<"p", "l", "z", "_", "o", "n", "l", "y", "_">>
Lit_street_only == <<"s", "t", "r", "e", "e", "t", "_", "o", "n", "l", "y", "_">>
Lit_phon == <<"p", "h", "o", "n", "_">>
Lit_underscore == <<"_">>

\* OptimizedBlockingStrategy.create_blocking_keys_vectorized, for one row
\* lines 129-137 on the normalized postal code and street of one row
address_key(plz_norm, street_norm) ==
  IF plz_norm # <<>> /\ street_norm # <<>> THEN plz_norm \o Lit_underscore \o street_norm
  ELSE IF plz_norm # <<>> /\ street_norm = <<>> THEN Lit_plz_only \o plz_norm
  ELSE IF plz_norm = <<>> /\ street_norm # <<>> THEN Lit_street_only \o street_norm
  ELSE Lit_no_address

standard_key(rec) ==
  address_key(normalize_plz_vectorized(rec.Plz), normalize_street_vectorized(rec.Strasse))

\* lines 203-217: the phonetic key replaces the standard key 'no_address'
combined_key(standard, vorname_phon, name_phon) ==
  IF standard = Lit_no_address
  THEN Lit_phon \o vorname_phon \o Lit_underscore \o name_phon
  ELSE standard

\* PhoneticBlockingStrategy.create_blocking_keys_vectorized, for one row
phonetic_key(rec) ==
  combined_key(standard_key(rec), get_cologne_phonetic(rec.Vorname), get_cologne_phonetic(rec.Name))

create_blocking_keys_vectorized(frame, use_phonetic) ==
  [k \in 1..Len(frame) |-> IF use_phonetic THEN phonetic_key(frame[k]) ELSE standard_key(frame[k])]

\* the columns df['vorname_phon'] and df['name_phon'] that the phonetic
\* strategy assigns on the frame it is given
WithPhoneticColumns(frame) ==
  [k \in 1..Len(frame) |->
     [vorname_phon |-> get_cologne_phonetic(frame[k].Vorname),
      name_phon |-> get_cologne_phonetic(frame[k].Name)] @@ frame[k]]

\* code-point order of the characters that occur in blocking keys
KeyChars ==
  <<" ", "0", "1", "2", "3", "4", "5", "6", "7", "8", "9", "_",
    "a", "b", "c", "d", "e", "f", "g", "h", "i", "j", "k", "l", "m",
    "n", "o", "p", "q", "r", "s", "t", "u", "v", "w", "x", "y", "z">>

CharRank(c) == CHOOSE k \in 1..Len(KeyChars) : KeyChars[k] = c

\* Python's < on strings
RECURSIVE StrLess(_, _)
StrLess(a, b) ==
  IF b = <<>> THEN FALSE
  ELSE IF a = <<>> THEN TRUE
  ELSE IF Head(a) = Head(b) THEN StrLess(Tail(a), Tail(b))
  ELSE CharRank(Head(a)) < CharRank(Head(b))

\* the group keys in the order groupby iterates over them
RECURSIVE SortedKeys(_)
RECURSIVE LeastFirst(_, _)
SortedKeys(keys) ==
  IF keys = {} THEN <<>>
  ELSE LeastFirst(keys, CHOOSE a \in keys : \A b \in keys \ {a} : StrLess(a, b))

LeastFirst(keys, least) == <<least>> \o SortedKeys(keys \ {least})

\* the rows of one group, in frame order, each with its original index
\* (reset_index(drop=False))
\* the n-th smallest of a set of positions
NthPosition(positions, n) ==
  CHOOSE k \in positions : Cardinality({m \in positions : m < k}) = n - 1

\* rows that carry their position in the group instead of their original index
\* (reset_index(drop=True))
RowsAt_drop_index(frame, positions) ==
  [n \in 1..Cardinality(positions) |->
     [index |-> n - 1, rec |-> frame[NthPosition(positions, n)]]]

RowsAt(frame, positions) ==
  [n \in 1..Cardinality(positions) |->
     [index |-> NthPosition(positions, n) - 1, rec |-> frame[NthPosition(positions, n)]]]

GroupRows(frame, keys, key) == RowsAt(frame, {k \in 1..Len(frame) : keys[k] = key})

\* a chunk that takes one row too many
ChunkRows_off_by_one(rows, i, max_block_size) ==
  SubSeq(rows, i + 1, IF i + max_block_size + 1 < Len(rows) THEN i + max_block_size + 1 ELSE Len(rows))

\* group_df.iloc[i:i+max_block_size]
ChunkRows(rows, i, max_block_size) ==
  SubSeq(rows, i + 1, IF i + max_block_size < Len(rows) THEN i + max_block_size ELSE Len(rows))

NoChunk == -1

\* if len(chunk) > 1: blocks[f"{key}_chunk_{i}"] = chunk
KeptChunk(key, i, chunk) ==
  IF Len(chunk) > 1 THEN <<[key |-> key, chunk |-> i, rows |-> chunk]>> ELSE <<>>

\* the blocks one group contributes: the group itself, its chunks of more
\* than one row, or nothing
RECURSIVE ChunkBlocks(_, _, _, _)
ChunkBlocks(key, rows, i, max_block_size) ==
  IF i >= Len(rows) THEN <<>>
  ELSE KeptChunk(key, i, ChunkRows(rows, i, max_block_size))
         \o ChunkBlocks(key, rows, i + max_block_size, max_block_size)

GroupBlocks(key, rows, max_block_size) ==
  IF 1 < Len(rows) /\ Len(rows) <= max_block_size THEN <<[key |-> key, chunk |-> NoChunk, rows |-> rows]>>
  ELSE IF Len(rows) > max_block_size THEN ChunkBlocks(key, rows, 0, max_block_size)
  ELSE <<>>

\* create_blocks: the dict of blocks as a sequence in insertion order; frame
\* is the frame as the key computation leaves it
BlocksInOrder(frame, keys, order, max_block_size) ==
  Flatten([g \in 1..Len(order) |->
             GroupBlocks(order[g], GroupRows(frame, keys, order[g]), max_block_size)])

create_blocks(frame, keys, max_block_size) ==
  BlocksInOrder(frame, keys, SortedKeys({keys[k] : k \in 1..Len(keys)}), max_block_size)

\* total_records/len(blocks) in the log line: without a block the division
\* raises ZeroDivisionError and create_blocks returns nothing
create_blocks_outcome(created) == IF created = <<>> THEN "raised" ELSE "done"

DefaultMaxBlockSize == 10000

(***************************************************************************)
(* SpecNorm: the three field normalizers applied to bounded inputs         *)
(***************************************************************************)
MaxStrLen == 4

NormAlphabet == {"s", "t", "r", ".", "5", " ", "u:", "U:", "sz"}

RECURSIVE StringsUpTo(_, _)
StringsUpTo(alphabet, n) ==
  IF n = 0 THEN {<<>>}
  ELSE LET shorter == StringsUpTo(alphabet, n - 1)
       IN shorter \cup {Append(s, c) : s \in {t \in shorter : Len(t) = n - 1}, c \in alphabet}

\* spellings taken from the tests and the documentation
Hauptstr5 == <<"H", "a", "u", "p", "t", "s", "t", "r", ".", " ", "5">>
Mueller_uml == <<"M", "u:", "l", "l", "e", "r">>
MUELLER_uml == <<"M", "U:", "l", "l", "e", "r">>
Strasse_sz == <<"S", "t", "r", "a", "sz", "e">>

NormInputs == StringsUpTo(NormAlphabet, MaxStrLen)
                \cup {Null, Hauptstr5, Mueller_uml, MUELLER_uml, Strasse_sz}

\* the ways of writing one character without umlaut or eszett
TranslitChar(c) ==
  CASE c = "u:" -> {<<"u", "e">>} [] c = "a:" -> {<<"a", "e">>} [] c = "o:" -> {<<"o", "e">>}
    [] c = "U:" -> {<<"U", "e">>, <<"U", "E">>}
    [] c = "A:" -> {<<"A", "e">>, <<"A", "E">>}
    [] c = "O:" -> {<<"O", "e">>, <<"O", "E">>}
    [] c = "sz" -> {<<"s", "s">>}
    [] OTHER -> {<<c>>}

\* all spellings of s in which every umlaut and eszett is written out
RECURSIVE Translits(_)
Translits(s) ==
  IF s = Null \/ s = <<>> THEN {s}
  ELSE {h \o t : h \in TranslitChar(Head(s)), t \in Translits(Tail(s))}

NormApply(f, x) ==
  CASE f = "name" -> normalize_name(x)
    [] f = "street" -> normalize_street_vectorized(x)
    [] f = "plz" -> normalize_plz_vectorized(x)

InitNorm ==
  /\ ExportIdle
  /\ nfn = "none"
  /\ nin \in NormInputs
  /\ nout = <<>>
  /\ nalt = <<>>
  /\ RulesIdle
  /\ WorkerIdle
  /\ ScoreIdle
  /\ RunIdle

\* the argument of the next application: the input, then the previous result
NormArg == IF nout = <<>> THEN nin ELSE nout[Len(nout)]

\* OptimizedFuzzyMatcher.normalize_name, applied to the input and then to its
\* own result
NormalizeName ==
  /\ nfn \in {"none", "name"}
  /\ Len(nout) < 2
  /\ nfn' = "name"
  /\ nout' = Append(nout, normalize_name(NormArg))
  /\ UNCHANGED <<nin, nalt, ruleVars, workerVars, scoreVars, runVars, exportVars>>

\* normalize_street_vectorized, applied to the input and then to its own result
NormalizeStreet ==
  /\ nfn \in {"none", "street"}
  /\ Len(nout) < 2
  /\ nfn' = "street"
  /\ nout' = Append(nout, normalize_street_vectorized(NormArg))
  /\ UNCHANGED <<nin, nalt, ruleVars, workerVars, scoreVars, runVars, exportVars>>

\* normalize_plz_vectorized, applied to the input and then to its own result
NormalizePlz ==
  /\ nfn \in {"none", "plz"}
  /\ Len(nout) < 2
  /\ nfn' = "plz"
  /\ nout' = Append(nout, normalize_plz_vectorized(NormArg))
  /\ UNCHANGED <<nin, nalt, ruleVars, workerVars, scoreVars, runVars, exportVars>>

\* the same normalizer applied to a transliterated spelling of the input
NormalizeTranslit ==
  /\ nfn \in {"name", "street"}
  /\ nalt = <<>>
  /\ \E y \in Translits(nin) : nalt' = <<NormApply(nfn, y)>>
  /\ UNCHANGED <<nfn, nin, nout, ruleVars, workerVars, scoreVars, runVars, exportVars>>

NextNorm == NormalizeName \/ NormalizeStreet \/ NormalizePlz \/ NormalizeTranslit

SpecNorm == InitNorm /\ [][NextNorm]_vars

\* C6: every field normalizer is idempotent: applying it to its own result
\* changes nothing
C6_Idempotent == Len(nout) = 2 => nout[2] = nout[1]

Rohner == <<"R", "o", "h", "n", "e", "r">>
Stassek_suffix == <<"-", "S", "t", "a", "s", "s", "e", "k">>
RohnerStassek == Rohner \o Stassek_suffix

RuleNames == {Null, <<>>, Rohner, RohnerStassek, Lower(RohnerStassek)}
RuleNames2 == {Null, <<>>, <<" ">>, Stassek_suffix, Lower(Stassek_suffix) \o <<" ">>, Rohner}

RuleGeburtstage ==
  {Null, <<>>, <<"a", "b", "c">>,
   <<"1", "9", "8", "0", "-", "0", "1", "-", "1", "5">>,
   <<"1", "6", ".", "0", "7", ".", "1", "9", "6", "3">>,
   <<"0", "0", "0", "0", "-", "0", "1", "-", "0", "1">>}

RuleJahrgaenge ==
  {Null, <<>>, <<"a", "b", "c">>, <<"0">>, <<"1", "9", "6", "3">>,
   <<"1", "9", "9", "8">>, <<"1", "9", "9", "8", ".", "0">>}

ZweitnameArgs == RuleNames \X RuleNames2 \X RuleNames \X RuleNames2
DateArgs == RuleGeburtstage \X RuleJahrgaenge \X RuleGeburtstage \X RuleJahrgaenge

InitRules ==
  /\ ExportIdle
  /\ rfn = "none"
  /\ rargs \in ZweitnameArgs \cup DateArgs
  /\ rfwd = <<>>
  /\ rbwd = <<>>
  /\ NormIdle
  /\ WorkerIdle
  /\ ScoreIdle
  /\ RunIdle

\* FastBusinessRules.check_zweitname(record A, record B)
CheckZweitname ==
  /\ rfn \in {"none", "zweitname"}
  /\ rargs \in ZweitnameArgs
  /\ rfwd = <<>>
  /\ rfn' = "zweitname"
  /\ rfwd' = <<check_zweitname(rargs[1], rargs[2], rargs[3], rargs[4])>>
  /\ UNCHANGED <<rargs, rbwd, normVars, workerVars, scoreVars, runVars, exportVars>>

\* FastBusinessRules.check_zweitname(record B, record A)
CheckZweitnameSwapped ==
  /\ rfn \in {"none", "zweitname"}
  /\ rargs \in ZweitnameArgs
  /\ rbwd = <<>>
  /\ rfn' = "zweitname"
  /\ rbwd' = <<check_zweitname(rargs[3], rargs[4], rargs[1], rargs[2])>>
  /\ UNCHANGED <<rargs, rfwd, normVars, workerVars, scoreVars, runVars, exportVars>>

\* FastBusinessRules.check_date_rule(record A, record B)
CheckDateRule ==
  /\ rfn \in {"none", "date"}
  /\ rargs \in DateArgs
  /\ rfwd = <<>>
  /\ rfn' = "date"
  /\ rfwd' = <<check_date_rule(rargs[1], rargs[2], rargs[3], rargs[4])>>
  /\ UNCHANGED <<rargs, rbwd, normVars, workerVars, scoreVars, runVars, exportVars>>

\* FastBusinessRules.check_date_rule(record B, record A)
CheckDateRuleSwapped ==
  /\ rfn \in {"none", "date"}
  /\ rargs \in DateArgs
  /\ rbwd = <<>>
  /\ rfn' = "date"
  /\ rbwd' = <<check_date_rule(rargs[3], rargs[4], rargs[1], rargs[2])>>
  /\ UNCHANGED <<rargs, rfwd, normVars, workerVars, scoreVars, runVars, exportVars>>

NextRules == CheckZweitname \/ CheckZweitnameSwapped \/ CheckDateRule \/ CheckDateRuleSwapped

SpecRules == InitRules /\ [][NextRules]_vars

\* C9: check_zweitname and check_date_rule return the same verdict on
\* (record A, record B) as on (record B, record A)
C9_RulesSymmetric == (rfwd # <<>> /\ rbwd # <<>>) => rfwd[1] = rbwd[1]

\* the compound surname split over name and name2 on side A only, in both
\* orders, and a one-sided year in both orders
C9_Witness ==
  /\ rfwd # <<>> /\ rbwd # <<>>
  /\ \/ /\ rfn = "zweitname"
        /\ rargs = <<Rohner, Stassek_suffix, RohnerStassek, <<>>>>
        /\ rfwd[1] = TRUE /\ rbwd[1] = TRUE
     \/ /\ rfn = "date"
        /\ rargs[1] = Null /\ rargs[2] = <<"1", "9", "9", "8">>
        /\ rargs[3] = <<"1", "6", ".", "0", "7", ".", "1", "9", "6", "3">>
        /\ rfwd[1] = FALSE /\ rbwd[1] = FALSE

\* a field as the second-name table reads it: null as empty, otherwise
\* trimmed and lower-cased
TableValue(x) == IF x = Null THEN <<>> ELSE Lower(Strip(x))

\* the verdict of the four-case table on the values as the table reads them
TableVerdict(name_a, name2_a, name_b, name2_b) ==
  CASE name2_a = <<>> /\ name2_b = <<>> -> TRUE
    [] name2_a # <<>> /\ name2_b # <<>> -> name2_a = name2_b
    [] name2_a # <<>> /\ name2_b = <<>> -> EndsWith(name_b, name2_a)
    [] name2_a = <<>> /\ name2_b # <<>> -> EndsWith(name_a, name2_b)

\* C11: check_zweitname returns the verdict of the four-case table on the
\* lower-cased, trimmed values: both name2 empty pass; both non-empty pass
\* iff equal; one non-empty passes iff the other side's name ends with it;
\* a null name2 counts as empty
C11_ZweitnameTable ==
  (rfn = "zweitname" /\ rfwd # <<>>) =>
    rfwd[1] = TableVerdict(TableValue(rargs[1]), TableValue(rargs[2]),
                           TableValue(rargs[3]), TableValue(rargs[4]))

\* the compound surname on side A against the padded lower-case suffix in
\* name2 of side B, and two second names that differ in letter case only
C11_Witness ==
  /\ rfn = "zweitname" /\ rfwd = <<TRUE>>
  /\ \/ rargs = <<RohnerStassek, Null, Rohner, Lower(Stassek_suffix) \o <<" ">>>>
     \/ rargs = <<Rohner, Stassek_suffix, Rohner, Lower(Stassek_suffix) \o <<" ">>>>

\* the effective year as the date rule is stated: the year of geburtstag when
\* one is present, else the jahrgang
StatedEffectiveYear(geburtstag, jahrgang) ==
  IF extract_year(geburtstag) # NoYear THEN extract_year(geburtstag)
  ELSE parse_jahrgang(jahrgang)

\* both present: equal; both absent: pass; exactly one absent: fail
StatedDateVerdict(effective_a, effective_b) ==
  IF effective_a # NoYear /\ effective_b # NoYear THEN effective_a = effective_b
  ELSE effective_a = NoYear /\ effective_b = NoYear

\* C12: check_date_rule decides on the two effective years only: both present
\* pass iff equal, both absent pass, exactly one absent fail, for every year
\* the parsers can yield, the year 0 included
C12_DateByEffectiveYears ==
  (rfn = "date" /\ rfwd # <<>>) =>
    rfwd[1] = StatedDateVerdict(StatedEffectiveYear(rargs[1], rargs[2]),
                                StatedEffectiveYear(rargs[3], rargs[4]))

\* C13: the effective year is the geburtstag year when present, else the
\* jahrgang, and a side's jahrgang is ignored whenever its geburtstag yields
\* a year: a record with only jahrgang Y1 and a record with geburtstag year
\* Y2 # Y1 fail the date rule whatever the second record's jahrgang is
C13_BirthDateOverridesJahrgang ==
  (/\ rfn = "date" /\ rfwd # <<>>
   /\ extract_year(rargs[1]) = NoYear
   /\ parse_jahrgang(rargs[2]) # NoYear
   /\ extract_year(rargs[3]) # NoYear
   /\ extract_year(rargs[3]) # parse_jahrgang(rargs[2])) => rfwd[1] = FALSE

(***************************************************************************)
(* SpecWorker: process_block_worker on one block, pair by pair             *)
(***************************************************************************)
MaxBlockLen == 3

Karl == <<"K", "a", "r", "l">>
Haus == <<"H", "a", "u", "s">>
Mueller == <<"M", "u", "e", "l", "l", "e", "r">>
Meier == <<"M", "e", "i", "e", "r">>
Mayr == <<"M", "a", "y", "r">>
Geb1978 == <<"1", "9", "7", "8", "-", "0", "8", "-", "1", "5">>
Jg1978 == <<"1", "9", "7", "8">>
Jg1998 == <<"1", "9", "9", "8">>
Muellerstrasse_uml == <<"M", "u:", "l", "l", "e", "r", "s", "t", "r", "a", "s", "s", "e">>
Muellerstrasse == <<"M", "u", "e", "l", "l", "e", "r", "s", "t", "r", "a", "s", "s", "e">>
Plz12345 == <<"1", "2", "3", "4", "5">>
Bern == <<"B", "e", "r", "n">>

Record(vorname, name, name2, geburtstag, jahrgang, strasse, hausnummer, plz, ort) ==
  [Vorname |-> vorname, Name |-> name, Name2 |-> name2,
   Geburtstag |-> geburtstag, Jahrgang |-> jahrgang,
   Strasse |-> strasse, HausNummer |-> hausnummer, Plz |-> plz, Ort |-> ort,
   Crefo |-> <<>>]

Person(vorname, name, name2, geburtstag, jahrgang, hausnummer, ort) ==
  Record(vorname, name, name2, geburtstag, jahrgang, Muellerstrasse_uml, hausnummer, Plz12345, ort)

\* the records a block is drawn from: umlaut spellings, swapped names, typos,
\* phonetic spellings, a year conflict, a missing given name
WorkerRecords ==
  {Person(Karl, Mueller_uml, <<>>, Geb1978, Null, <<"1">>, Bern),
   Person(Karl, Mueller, <<>>, Geb1978, Null, <<"1">>, Bern),
   Person(Mueller, Karl, <<>>, Null, Jg1978, <<"2">>, Bern),
   Person(Karl, Meier, <<>>, Geb1978, Null, <<"1">>, Bern),
   Person(Karl, Mayr, <<>>, Geb1978, Null, <<"1">>, Null),
   Person(Haus, Mueller, <<>>, Geb1978, Null, <<>>, <<>>),
   Person(Karl, Mueller, <<>>, Null, Jg1998, <<"1">>, Bern),
   Person(Null, Mueller, <<>>, Geb1978, Null, <<"1">>, Bern)}

ConfidenceThresholds == {FracInt(0), FracInt(70), FracInt(96)}
FuzzyThresholds == {Frac(7, 10), Frac(8, 10)}

RECURSIVE SeqsOfLen(_, _)
SeqsOfLen(S, n) ==
  IF n = 0 THEN {<<>>} ELSE {Append(q, x) : q \in SeqsOfLen(S, n - 1), x \in S}

\* the original row index of the record at position k of a block
RowIndexStride == 10

BlockOf(recs) == [k \in 1..Len(recs) |-> [index |-> RowIndexStride * k, rec |-> recs[k]]]

\* two spellings of one person, which stage 1 matches
ExactPair ==
  <<Person(Karl, Mueller_uml, <<>>, Geb1978, Null, <<"1">>, Bern),
    Person(Karl, Mueller, <<>>, Geb1978, Null, <<"1">>, Bern)>>

\* blocks of four rows in which two more records stand before or after the
\* exact pair, so that stage 2 has a pair left to evaluate
ExactPairBlocks ==
  {BlockOf(ExactPair \o rest) : rest \in SeqsOfLen(WorkerRecords, 2)}
    \cup {BlockOf(rest \o ExactPair) : rest \in SeqsOfLen(WorkerRecords, 2)}

WorkerBlocks ==
  UNION {{BlockOf(recs) : recs \in SeqsOfLen(WorkerRecords, n)} : n \in 1..MaxBlockLen}
    \cup ExactPairBlocks

InitWorker ==
  /\ ExportIdle
  /\ \E block_data \in WorkerBlocks, ct \in ConfidenceThresholds, ft \in FuzzyThresholds :
       /\ wargs = [block_data |-> block_data, confidence_threshold |-> ct, fuzzy_threshold |-> ft]
       /\ wst = WorkerStart(block_data)
  /\ NormIdle
  /\ RulesIdle
  /\ ScoreIdle
  /\ RunIdle

\* one iteration of the inner loop of stage 1 (lines 400-473)
Stage1Pair ==
  /\ wst.stage = "stage1"
  /\ wst' = Stage1Step(wst, wargs.block_data)
  /\ UNCHANGED <<wargs, normVars, ruleVars, scoreVars, runVars, exportVars>>

\* one iteration of the inner loop of stage 2 (lines 478-600)
Stage2Pair ==
  /\ wst.stage = "stage2"
  /\ wst' = Stage2Step(wst, wargs.block_data, wargs.confidence_threshold, wargs.fuzzy_threshold)
  /\ UNCHANGED <<wargs, normVars, ruleVars, scoreVars, runVars, exportVars>>

NextWorker == Stage1Pair \/ Stage2Pair

SpecWorker == InitWorker /\ [][NextWorker]_vars

MatchPair(m) == <<m.record_a_idx, m.record_b_idx>>

\* C2: every match emitted by process_block_worker, exact ones included, has a
\* confidence_score of at least the confidence_threshold of the run
C2_ThresholdAllKinds ==
  \A k \in 1..Len(wst.matches) :
    FracLe(wargs.confidence_threshold, wst.matches[k].confidence_score)

\* C3: a pair for which stage 1 emitted an exact match is never evaluated by
\* stage 2 and gets no fuzzy or phonetic-assisted match
C3_StageExclusive ==
  \A k \in 1..Len(wst.matches) :
    wst.matches[k].match_type \in ExactTypes =>
      /\ MatchPair(wst.matches[k]) \notin wst.evaluated
      /\ \A l \in 1..Len(wst.matches) :
           MatchPair(wst.matches[l]) = MatchPair(wst.matches[k]) => wst.matches[l].match_type \in ExactTypes

\* both stages have run to their end over a block for which stage 1 emitted
\* an exact match and in which stage 2 evaluated another pair and matched it
C3_Witness ==
  /\ wst.stage = "done"
  /\ \E k, l \in 1..Len(wst.matches) :
       /\ wst.matches[k].match_type \in ExactTypes
       /\ wst.matches[l].match_type \in FuzzyTypes \cup PhoneticTypes
       /\ MatchPair(wst.matches[l]) \in wst.evaluated

\* what stage 1 is stated to emit for a pair: nothing, or a kind and a confidence
StatedExact(rules_pass, v_a, n_a, v_b, n_b, ratio) ==
  IF ~rules_pass \/ v_a = <<>> \/ n_a = <<>> \/ v_b = <<>> \/ n_b = <<>> THEN <<>>
  ELSE IF v_a = v_b /\ n_a = n_b
  THEN <<"exact_normal", FracAdd(FracInt(90), FracScale(10, ratio))>>
  ELSE IF v_a = n_b /\ n_a = v_b
  THEN <<"exact_swapped", FracAdd(FracInt(85), FracScale(10, ratio))>>
  ELSE <<>>

StatedExactOf(a, b) ==
  StatedExact(RulesPass(a.rec, b.rec),
              normalize_name(a.rec.Vorname), normalize_name(a.rec.Name),
              normalize_name(b.rec.Vorname), normalize_name(b.rec.Name),
              address_ratio(a.rec, b.rec))

\* the list after a pair of stage 1: unchanged when nothing is stated for the
\* pair, else longer by the one stated match
Stage1Appends(before, after, a, b, stated) ==
  IF stated = <<>> THEN after = before
  ELSE /\ Len(after) = Len(before) + 1
       /\ SubSeq(after, 1, Len(before)) = before
       /\ after[Len(after)].record_a_idx = a.index
       /\ after[Len(after)].record_b_idx = b.index
       /\ after[Len(after)].match_type = stated[1]
       /\ after[Len(after)].confidence_score = stated[2]
       /\ IF stated[1] = "exact_normal"
          THEN FracLe(FracInt(90), stated[2]) /\ FracLe(stated[2], FracInt(100))
          ELSE FracLe(FracInt(85), stated[2]) /\ FracLe(stated[2], FracInt(95))

\* C16: stage 1 emits a pair that passes both rules and has four non-empty
\* normalized names as exact_normal iff v_a = v_b and n_a = n_b, with
\* confidence 90 + 10 * address_ratio in [90, 100], and as exact_swapped iff
\* it is not exact_normal and v_a = n_b and n_a = v_b, with confidence
\* 85 + 10 * address_ratio in [85, 95]; it emits no other pair
C16_Stage1Exact ==
  [][wst.stage = "stage1" =>
       Stage1Appends(wst.matches, wst'.matches,
                     wargs.block_data[wst.i], wargs.block_data[wst.j],
                     StatedExactOf(wargs.block_data[wst.i], wargs.block_data[wst.j]))]_vars

\* stage 1 has gone through a block with an exact pair on a fully agreeing
\* address and a swapped pair that differs in the house number
C16_Witness ==
  /\ wst.stage = "stage2"
  /\ \E k \in 1..Len(wst.matches) :
       wst.matches[k].match_type = "exact_normal" /\ wst.matches[k].confidence_score = FracInt(100)
  /\ \E k \in 1..Len(wst.matches) :
       wst.matches[k].match_type = "exact_swapped" /\ wst.matches[k].confidence_score = Frac(185, 2)

\* an address field as stated: null as the empty string, otherwise trimmed
\* and case-folded
StatedAddressValue(rec, field) == IF rec[field] = Null THEN <<>> ELSE Lower(Strip(rec[field]))

\* the fields both records have non-empty
ConsideredFields(rec_a, rec_b) ==
  {k \in 1..Len(address_fields) :
     /\ StatedAddressValue(rec_a, address_fields[k]) # <<>>
     /\ StatedAddressValue(rec_b, address_fields[k]) # <<>>}

\* matches / considered, 0 when no field is considered
StatedAddressRatio(rec_a, rec_b) ==
  IF ConsideredFields(rec_a, rec_b) = {} THEN FracInt(0)
  ELSE Frac(Cardinality({k \in ConsideredFields(rec_a, rec_b) :
                           StatedAddressValue(rec_a, address_fields[k])
                             = StatedAddressValue(rec_b, address_fields[k])}),
            Cardinality(ConsideredFields(rec_a, rec_b)))

\* the record of the block that has the given original index
RecordAt(index) ==
  wargs.block_data[CHOOSE k \in 1..Len(wargs.block_data) : wargs.block_data[k].index = index].rec

\* C19: the address_ratio of a pair is matches / considered over strasse,
\* hausnummer, plz and ort, a field being considered iff both records have it
\* non-empty after trimming and case-folding; a null field counts as an empty
\* string and is not considered; the ratio is 0 when no field is considered
C19_AddressRatio ==
  \A k \in 1..Len(wst.matches) :
    wst.matches[k].address_ratio
      = StatedAddressRatio(RecordAt(wst.matches[k].record_a_idx),
                           RecordAt(wst.matches[k].record_b_idx))

\* the position in the block of the record with the given original index
PositionOf(index) ==
  CHOOSE k \in 1..Len(wargs.block_data) : wargs.block_data[k].index = index

\* the positions of a match
MatchPositions(m) == {PositionOf(m.record_a_idx), PositionOf(m.record_b_idx)}

\* the consumed set against the matches emitted so far
ConsumedSeparates(w) ==
  \A k \in 1..Len(w.matches) :
    IF w.matches[k].match_type \in ExactTypes
    THEN MatchPositions(w.matches[k]) \subseteq w.matched_indices
    ELSE MatchPositions(w.matches[k]) \cap w.matched_indices = {}

\* C25: within a block the set of consumed positions only grows and no longer
\* changes once stage 2 has started; it contains both positions of every
\* exact match, and every fuzzy or phonetic-assisted match has both of its
\* positions outside it, so a record of an exact match is in no stage-2 match
C25_ConsumedSet ==
  [][/\ wst.matched_indices \subseteq wst'.matched_indices
     /\ wst.stage = "stage2" => wst'.matched_indices = wst.matched_indices
     /\ wst.stage = "stage1" =>
          \A k \in 1..Len(wst'.matches) : wst'.matches[k].match_type \in ExactTypes
     /\ ConsumedSeparates(wst')]_vars

\* both stages have run over a block in which stage 1 consumed two records,
\* stage 2 matched two others, and a consumed record stands with a third
\* record that stage 2 would have matched with it
C25_Witness ==
  /\ wst.stage = "done"
  /\ wst.matched_indices # {}
  /\ \E k \in 1..Len(wst.matches) : wst.matches[k].match_type \in FuzzyTypes \cup PhoneticTypes
  /\ \E i \in wst.matched_indices, j \in 1..Len(wargs.block_data) :
       /\ j \notin wst.matched_indices
       /\ Stage2Match(wargs.block_data[IF i < j THEN i ELSE j],
                      wargs.block_data[IF i < j THEN j ELSE i],
                      wargs.confidence_threshold, wargs.fuzzy_threshold) # <<>>

\* C28: every match emitted by stage 2, fuzzy or phonetic-assisted, records
\* a best_score of at least the fuzzy_threshold of the run, for every
\* fuzzy_threshold above 0.60 and up to 1, the default 0.8 included
C28_BestScoreReachesThreshold ==
  (FracLt(PhoneticFloor, wargs.fuzzy_threshold) /\ FracLe(wargs.fuzzy_threshold, FracInt(1))) =>
    \A k \in 1..Len(wst.matches) :
      wst.matches[k].match_type \in FuzzyTypes \cup PhoneticTypes =>
        FracLe(wargs.fuzzy_threshold, wst.matches[k].best_score)

\* the two records pass both rules and have the same normalized given name
\* and the same normalized family name
SameNames(a, b) ==
  /\ RulesPass(a.rec, b.rec)
  /\ normalize_name(a.rec.Vorname) = normalize_name(b.rec.Vorname)
  /\ normalize_name(a.rec.Name) = normalize_name(b.rec.Name)

PairwiseSameNames(block_data) ==
  \A i, j \in 1..Len(block_data) : i < j => SameNames(block_data[i], block_data[j])

\* no record of the block has an empty normalized given or family name
AllNamed(block_data) ==
  \A i \in 1..Len(block_data) :
    normalize_name(block_data[i].rec.Vorname) # <<>> /\ normalize_name(block_data[i].rec.Name) # <<>>

\* the list holds one exact match for every pair of positions of a block of
\* k records, k (k - 1) / 2 in all, and nothing else
OneExactPerPair(matches, block_data) ==
  /\ 2 * Len(matches) = Len(block_data) * (Len(block_data) - 1)
  /\ \A k \in 1..Len(matches) : matches[k].match_type \in ExactTypes
  /\ \A i, j \in 1..Len(block_data) :
       i < j => \E k \in 1..Len(matches) :
                  MatchPair(matches[k]) = <<block_data[i].index, block_data[j].index>>

\* C29: stage 1 evaluates every pair of the block, whether or not one of its
\* records is already consumed: a block of k records that pairwise pass the
\* rules and have equal normalized names yields exactly k (k - 1) / 2 exact
\* matches and no stage-2 match
C29_AllPairsExact ==
  (wst.stage = "done" /\ PairwiseSameNames(wargs.block_data)) =>
    OneExactPerPair(wst.matches, wargs.block_data)

\* C29 amended: the same for a block whose records all have a non-empty
\* normalized given name and family name
C29_AllNamedPairsExact ==
  (wst.stage = "done" /\ PairwiseSameNames(wargs.block_data) /\ AllNamed(wargs.block_data)) =>
    OneExactPerPair(wst.matches, wargs.block_data)

\* a finished block of three or more records with equal non-empty names, in
\* which every pair after the first has a consumed record
C29_Witness ==
  /\ wst.stage = "done"
  /\ Len(wargs.block_data) >= 3
  /\ AllNamed(wargs.block_data) /\ PairwiseSameNames(wargs.block_data)
  /\ 2 * Len(wst.matches) = Len(wargs.block_data) * (Len(wargs.block_data) - 1)
  /\ wst.matched_indices = 1..Len(wargs.block_data)

(***************************************************************************)
(* SpecScore: the confidence computations of the two stages on a grid of   *)
(* similarity scores and address ratios                                    *)
(***************************************************************************)
ScoreSteps == 20

\* best_score values k / ScoreSteps in [0, 1]
ScoreGrid == {Frac(k, ScoreSteps) : k \in 0..ScoreSteps}

\* the values address_matches / max(total_address_fields, 1) can take
AddressRatios ==
  {Frac(p[1], p[2]) : p \in {q \in (0..Len(address_fields)) \X (1..Len(address_fields)) : q[1] <= q[2]}}

ScoreRowA == 0
ScoreRowB == 1

InitScore ==
  /\ ExportIdle
  /\ \E best \in ScoreGrid, ratio \in AddressRatios, swapped \in BOOLEAN, phonetic \in BOOLEAN,
        ct \in ConfidenceThresholds :
       sargs = [best_score |-> IF phonetic THEN PhoneticBoost ELSE best,
                is_swapped |-> swapped, phonetic_assisted |-> phonetic,
                address_ratio |-> ratio, confidence_threshold |-> ct]
  /\ sout = [computed |-> FALSE, matches |-> <<>>]
  /\ NormIdle
  /\ RulesIdle
  /\ WorkerIdle
  /\ RunIdle

\* lines 447-469: the confidence and the append of an exact match
ScoreExact ==
  /\ ~sout.computed
  /\ sargs.phonetic_assisted = FALSE
  /\ sout' = [computed |-> TRUE,
               matches |-> Stage1Emit(ScoreRowA, ScoreRowB, ~sargs.is_swapped, sargs.address_ratio)]
  /\ UNCHANGED <<sargs, normVars, ruleVars, workerVars, runVars, exportVars>>

\* lines 553-600: the confidence and the conditional append of a stage-2 match
ScoreStage2 ==
  /\ ~sout.computed
  /\ sout' = [computed |-> TRUE,
               matches |-> Stage2Emit(ScoreRowA, ScoreRowB,
                                      [best_score |-> sargs.best_score, is_swapped |-> sargs.is_swapped,
                                       phonetic_assisted |-> sargs.phonetic_assisted],
                                      sargs.address_ratio, sargs.confidence_threshold)]
  /\ UNCHANGED <<sargs, normVars, ruleVars, workerVars, runVars, exportVars>>

NextScore == ScoreExact \/ ScoreStage2

SpecScore == InitScore /\ [][NextScore]_vars

Emitted == sout.matches

\* C10: every emitted fuzzy or phonetic-assisted match has a confidence of at
\* most 95, for every similarity score and address ratio in [0, 1]
C10_FuzzyTierCapped ==
  \A k \in 1..Len(Emitted) :
    Emitted[k].match_type \in FuzzyTypes \cup PhoneticTypes =>
      FracLe(Emitted[k].confidence_score, FracInt(FuzzyCap))

\* the highest confidences of the tier: a phonetic-assisted match on a fully
\* agreeing address (82) and a fuzzy match of identical names (80)
C10_Witness ==
  \E k \in 1..Len(Emitted) :
    \/ /\ Emitted[k].match_type = "phonetic_assisted_normal"
       /\ Emitted[k].confidence_score = FracInt(82)
    \/ /\ Emitted[k].match_type = "fuzzy_normal"
       /\ Emitted[k].confidence_score = FracInt(80)

\* the kind and the confidence stated for a stage-2 match
StatedStage2(best, is_swapped, phonetic_assisted, ratio) ==
  IF phonetic_assisted
  THEN (IF is_swapped
        THEN <<"phonetic_assisted_swapped", FracAdd(FracInt(70), FracScale(10, ratio))>>
        ELSE <<"phonetic_assisted_normal", FracAdd(FracInt(72), FracScale(10, ratio))>>)
  ELSE (IF is_swapped
        THEN <<"fuzzy_swapped",
               FracAdd(FracAdd(FracScale(50, best), FracScale(30, ratio)), FracInt(-5))>>
        ELSE <<"fuzzy_normal", FracAdd(FracScale(50, best), FracScale(30, ratio))>>)

\* the stated ranges of the two phonetic-assisted kinds
StatedRange(kind, confidence) ==
  /\ kind = "phonetic_assisted_normal"
       => FracLe(FracInt(72), confidence) /\ FracLe(confidence, FracInt(82))
  /\ kind = "phonetic_assisted_swapped"
       => FracLe(FracInt(70), confidence) /\ FracLe(confidence, FracInt(80))

\* the list of a stage-2 pair holds the stated match iff its confidence
\* reaches the threshold
EmitsStated(emitted, stated, confidence_threshold) ==
  /\ StatedRange(stated[1], stated[2])
  /\ IF FracLe(confidence_threshold, stated[2])
     THEN /\ Len(emitted) = 1
          /\ emitted[1].match_type = stated[1]
          /\ emitted[1].confidence_score = stated[2]
     ELSE emitted = <<>>

\* C18: the confidence of a stage-2 match is 50 * best + 30 * address_ratio
\* for fuzzy_normal, 5 less for fuzzy_swapped, 72 + 10 * address_ratio for
\* phonetic_assisted_normal (72 to 82) and 70 + 10 * address_ratio for
\* phonetic_assisted_swapped (70 to 80), and the match is emitted iff that
\* confidence is at least confidence_threshold
C18_Stage2Confidence ==
  (/\ sout.computed
   /\ sout.matches = <<>> \/ sout.matches[1].match_type \notin ExactTypes) =>
    EmitsStated(sout.matches,
                StatedStage2(sargs.best_score, sargs.is_swapped,
                             sargs.phonetic_assisted, sargs.address_ratio),
                sargs.confidence_threshold)

\* a phonetic-assisted swapped match without an agreeing address field, which
\* meets the threshold 70 exactly, and a fuzzy swapped match of 0.9 on a
\* fully agreeing address
C18_Witness ==
  /\ sout.computed /\ Len(sout.matches) = 1
  /\ \/ /\ sout.matches[1].match_type = "phonetic_assisted_swapped"
        /\ sargs.confidence_threshold = FracInt(70)
        /\ sout.matches[1].confidence_score = FracInt(70)
     \/ /\ sout.matches[1].match_type = "fuzzy_swapped"
        /\ sargs.best_score = Frac(9, 10) /\ sargs.address_ratio = FracInt(1)
        /\ sout.matches[1].confidence_score = FracInt(70)

\* the confidences of the exact matches of both kinds over every address ratio
ExactConfidences ==
  {Stage1Emit(ScoreRowA, ScoreRowB, is_exact_normal, ratio)[1].confidence_score :
     is_exact_normal \in BOOLEAN, ratio \in AddressRatios}

\* C27: for every similarity score and address ratio in [0, 1], the
\* confidence of an emitted fuzzy_normal, fuzzy_swapped,
\* phonetic_assisted_normal or phonetic_assisted_swapped match is at most the
\* confidence of any exact_normal or exact_swapped match
C27_FuzzyBelowExact ==
  \A k \in 1..Len(Emitted) :
    Emitted[k].match_type \in FuzzyTypes \cup PhoneticTypes =>
      \A exact \in ExactConfidences : FracLe(Emitted[k].confidence_score, exact)

\* the highest stage-2 confidence, a phonetic-assisted match on a fully
\* agreeing address (82), below the lowest exact confidence (85)
C27_Witness ==
  /\ sout.computed /\ Len(Emitted) = 1
  /\ Emitted[1].match_type = "phonetic_assisted_normal"
  /\ sargs.address_ratio = FracInt(1)
  /\ Emitted[1].confidence_score = FracInt(82)
  /\ FracInt(ExactSwappedBase) \in ExactConfidences

(***************************************************************************)
(* SpecDecision: the name decision of stage 2 on a grid of similarity      *)
(* scores, on short Cologne codes and on thresholds below and above 0.60   *)
(***************************************************************************)
\* get_cologne_phonetic results: no code, and two different codes
DecisionCodes == {<<>>, <<"4">>, <<"6", "7">>}

\* fuzzy_threshold values: one below the floor of the phonetic fallback, the
\* value the callers pass, and the default of the constructor
DecisionThresholds == {Frac(1, 2), Frac(7, 10), Frac(8, 10)}

InitDecision ==
  /\ ExportIdle
  /\ \E best \in ScoreGrid, swapped \in BOOLEAN, ft \in DecisionThresholds,
        v_a_phon \in DecisionCodes, n_a_phon \in DecisionCodes,
        v_b_phon \in DecisionCodes, n_b_phon \in DecisionCodes :
       sargs = [name_results |-> [best_score |-> best, is_swapped |-> swapped],
                v_a_phon |-> v_a_phon, n_a_phon |-> n_a_phon,
                v_b_phon |-> v_b_phon, n_b_phon |-> n_b_phon,
                fuzzy_threshold |-> ft]
  /\ sout = <<>>
  /\ NormIdle
  /\ RulesIdle
  /\ WorkerIdle
  /\ RunIdle

\* lines 510-537 on a pair that passed both rules
DecideNames ==
  /\ sout = <<>>
  /\ sout' = <<name_decision(sargs.name_results, sargs.v_a_phon, sargs.n_a_phon,
                             sargs.v_b_phon, sargs.n_b_phon, sargs.fuzzy_threshold)>>
  /\ UNCHANGED <<sargs, normVars, ruleVars, workerVars, runVars, exportVars>>

NextDecision == DecideNames

SpecDecision == InitDecision /\ [][NextDecision]_vars

\* all four codes are non-empty and agree in the normal or the swapped arrangement
CodesAgree(v_a, n_a, v_b, n_b) ==
  /\ v_a # <<>> /\ n_a # <<>> /\ v_b # <<>> /\ n_b # <<>>
  /\ (v_a = v_b /\ n_a = n_b) \/ (v_a = n_b /\ n_a = v_b)

\* the two acceptance clauses: fuzzy iff best >= fuzzy_threshold, and
\* phonetic-assisted iff 0.60 <= best < fuzzy_threshold and the codes agree
StatedAcceptance(decision, best, fuzzy_threshold, codes_agree) ==
  /\ (decision.accepted /\ ~decision.phonetic_assisted) <=> FracLe(fuzzy_threshold, best)
  /\ (decision.accepted /\ decision.phonetic_assisted)
       <=> (FracLe(Frac(60, 100), best) /\ FracLt(best, fuzzy_threshold) /\ codes_agree)

\* C17 as stated: a pair that passes both rules is accepted as fuzzy iff
\* best >= fuzzy_threshold, as phonetic-assisted iff 0.60 <= best <
\* fuzzy_threshold and the four codes are non-empty and agree, and rejected
\* in every other case, in particular whenever best < 0.60
C17_RejectedBelowFloor ==
  sout # <<>> =>
    /\ StatedAcceptance(sout[1], sargs.name_results.best_score, sargs.fuzzy_threshold,
                        CodesAgree(sargs.v_a_phon, sargs.n_a_phon, sargs.v_b_phon, sargs.n_b_phon))
    /\ FracLt(sargs.name_results.best_score, Frac(60, 100)) => ~sout[1].accepted

\* C17 amended: the two acceptance clauses, rejection in every other case,
\* and in particular whenever best is below both 0.60 and fuzzy_threshold
C17_NameDecision ==
  sout # <<>> =>
    /\ StatedAcceptance(sout[1], sargs.name_results.best_score, sargs.fuzzy_threshold,
                        CodesAgree(sargs.v_a_phon, sargs.n_a_phon, sargs.v_b_phon, sargs.n_b_phon))
    /\ (/\ FracLt(sargs.name_results.best_score, Frac(60, 100))
        /\ FracLt(sargs.name_results.best_score, sargs.fuzzy_threshold)) => ~sout[1].accepted

\* a similarity of 0.55 under the threshold 0.5 is accepted as fuzzy
C17_Witness ==
  /\ sout # <<>>
  /\ sargs.fuzzy_threshold = Frac(1, 2)
  /\ sargs.name_results.best_score = Frac(55, 100)
  /\ sout[1].accepted /\ ~sout[1].phonetic_assisted

(***************************************************************************)
(* SpecBlocks: create_blocks called on small frames with small             *)
(* max_block_size values                                                   *)
(***************************************************************************)
MaxRows == 5
MaxChunkSize == 3

Hauptstr_dot == <<"H", "a", "u", "p", "t", "s", "t", "r", ".">>
Plz80000 == <<"8", "0", "0", "0", "0">>

Resident(strasse, plz) == Record(Karl, Meier, <<>>, Geb1978, Null, strasse, <<"1">>, plz, Bern)

\* rows that differ in the fields the blocking key is computed from
BlockRecords ==
  {Resident(Muellerstrasse_uml, Plz12345),
   Resident(Muellerstrasse, Plz12345),
   Resident(Hauptstr_dot, Plz80000),
   Resident(<<>>, Null)}

BlockFrames == UNION {SeqsOfLen(BlockRecords, n) : n \in 1..MaxRows}

InitBlocks ==
  /\ ExportIdle
  /\ df \in BlockFrames
  /\ \E mbs \in 2..MaxChunkSize, use_phonetic \in BOOLEAN :
       cfg = [max_block_size |-> mbs, use_phonetic |-> use_phonetic]
  /\ pc = "start"
  /\ blocking_keys = <<>>
  /\ blocks = <<>>
  /\ futures = <<>>
  /\ pending = {}
  /\ all_matches = <<>>
  /\ NormIdle
  /\ RulesIdle
  /\ WorkerIdle
  /\ ScoreIdle

\* OptimizedBlockingStrategy.create_blocks(df, max_block_size)
CreateBlocksStandard ==
  /\ pc = "start"
  /\ ~cfg.use_phonetic
  /\ blocking_keys' = create_blocking_keys_vectorized(df, FALSE)
  /\ blocks' = create_blocks(df, blocking_keys', cfg.max_block_size)
  /\ pc' = create_blocks_outcome(blocks')
  /\ UNCHANGED <<df, cfg, futures, pending, all_matches, normVars, ruleVars, workerVars, scoreVars, exportVars>>

\* PhoneticBlockingStrategy.create_blocks(df, max_block_size)
CreateBlocksPhonetic ==
  /\ pc = "start"
  /\ cfg.use_phonetic
  /\ blocking_keys' = create_blocking_keys_vectorized(df, TRUE)
  /\ df' = WithPhoneticColumns(df)
  /\ blocks' = create_blocks(df', blocking_keys', cfg.max_block_size)
  /\ pc' = create_blocks_outcome(blocks')
  /\ UNCHANGED <<cfg, futures, pending, all_matches, normVars, ruleVars, workerVars, scoreVars, exportVars>>

NextBlocks == CreateBlocksStandard \/ CreateBlocksPhonetic

SpecBlocks == InitBlocks /\ [][NextBlocks]_vars

\* the number of (block, position) places at which the row with index idx occurs
BlockPlaces(idx) ==
  Cardinality({p \in (1..Len(blocks)) \X (1..Len(df)) :
                 p[2] <= Len(blocks[p[1]].rows) /\ blocks[p[1]].rows[p[2]].index = idx})

KeyShared(k) == \E m \in 1..Len(df) : m # k /\ blocking_keys[m] = blocking_keys[k]

GroupOf(k) == {m \in 1..Len(df) : blocking_keys[m] = blocking_keys[k]}

\* row k is the only row of the last chunk of a split group
LonelyTail(k) ==
  /\ Cardinality(GroupOf(k)) > cfg.max_block_size
  /\ Cardinality(GroupOf(k)) % cfg.max_block_size = 1
  /\ \A m \in GroupOf(k) : m <= k

\* C5 as stated: every row whose key is shared is in exactly one block, every
\* row with a unique key is in none, also when a group is split into chunks
C5_ExactlyOneBlock ==
  pc = "done" =>
    \A k \in 1..Len(df) : BlockPlaces(k - 1) = IF KeyShared(k) THEN 1 ELSE 0

\* C5 amended: no row is in two blocks, a row with a unique key is in none,
\* and a row with a shared key is in exactly one block unless it is the single
\* row of the last chunk of a split group, which is in none
C5_AtMostOneBlock ==
  pc = "done" =>
    \A k \in 1..Len(df) :
      BlockPlaces(k - 1) = IF KeyShared(k) /\ ~LonelyTail(k) THEN 1 ELSE 0

\* a group of three rows split with max_block_size = 2: one chunk of two rows
\* and a dropped single row
C5_Witness ==
  /\ pc = "done"
  /\ cfg.max_block_size = 2
  /\ \E k \in 1..Len(df) : Cardinality(GroupOf(k)) = 3 /\ LonelyTail(k) /\ BlockPlaces(k - 1) = 0
  /\ \E b \in 1..Len(blocks) : blocks[b].chunk = 0 /\ Len(blocks[b].rows) = 2

\* C8: two rows with the same postal code whose streets differ only in the
\* transliteration of umlauts get the same blocking key
C8_StreetUmlautSameKey ==
  pc = "done" =>
    \A k, m \in 1..Len(df) :
      (df[k].Plz = df[m].Plz /\ df[m].Strasse \in Translits(df[k].Strasse))
        => blocking_keys[k] = blocking_keys[m]

(***************************************************************************)
(* SpecKeys: create_blocking_keys_vectorized of both strategies on frames  *)
(* whose rows have present, short, long, dirty and absent postal codes     *)
(***************************************************************************)
MaxKeyRows == 2

Plz8000 == <<"8", "0", "0", "0">>
Plz_CH_123456 == <<"C", "H", "-", "1", "2", "3", "4", "5", "6">>
Plz_na == <<"n", "/", "a">>

KeyRecords ==
  {Resident(Muellerstrasse, Plz12345),
   Resident(Hauptstr_dot, Plz8000),
   Resident(<<>>, Plz_CH_123456),
   Resident(Null, Plz12345),
   Resident(Muellerstrasse, Null),
   Resident(Muellerstrasse, Plz_na),
   Resident(<<>>, Null),
   Resident(<<>>, <<>>)}

KeyFrames == UNION {SeqsOfLen(KeyRecords, n) : n \in 1..MaxKeyRows}

InitKeys ==
  /\ ExportIdle
  /\ df \in KeyFrames
  /\ \E use_phonetic \in BOOLEAN : cfg = [use_phonetic |-> use_phonetic]
  /\ pc = "start"
  /\ blocking_keys = <<>>
  /\ blocks = <<>>
  /\ futures = <<>>
  /\ pending = {}
  /\ all_matches = <<>>
  /\ NormIdle
  /\ RulesIdle
  /\ WorkerIdle
  /\ ScoreIdle

\* OptimizedBlockingStrategy.create_blocking_keys_vectorized(df)
CreateKeysStandard ==
  /\ pc = "start"
  /\ ~cfg.use_phonetic
  /\ blocking_keys' = create_blocking_keys_vectorized(df, FALSE)
  /\ pc' = "keys"
  /\ UNCHANGED <<df, cfg, blocks, futures, pending, all_matches,
                 normVars, ruleVars, workerVars, scoreVars, exportVars>>

\* PhoneticBlockingStrategy.create_blocking_keys_vectorized(df)
CreateKeysPhonetic ==
  /\ pc = "start"
  /\ cfg.use_phonetic
  /\ blocking_keys' = create_blocking_keys_vectorized(df, TRUE)
  /\ df' = WithPhoneticColumns(df)
  /\ pc' = "keys"
  /\ UNCHANGED <<cfg, blocks, futures, pending, all_matches,
                 normVars, ruleVars, workerVars, scoreVars, exportVars>>

NextKeys == CreateKeysStandard \/ CreateKeysPhonetic

SpecKeys == InitKeys /\ [][NextKeys]_vars

\* the digits of a postal code, null read as the empty string
PlzDigits(plz) == IF plz = Null THEN <<>> ELSE SelectSeq(plz, IsDigit)

\* digits left-padded with '0' to five characters, then the first five
PaddedPlz(digits) ==
  IF Len(digits) >= PlzWidth THEN SubSeq(digits, 1, PlzWidth)
  ELSE [k \in 1..(PlzWidth - Len(digits)) |-> "0"] \o digits

\* the key stated for a row with a normalized postal code
PresentPlzKey(plz_n, street_n) ==
  IF street_n # <<>> THEN plz_n \o <<"_">> \o street_n
  ELSE <<"p", "l", "z", "_", "o", "n", "l", "y", "_">> \o plz_n

\* C14: a row whose normalized postal code is non-empty gets the key
\* plz_n + '_' + street_n when street_n is non-empty and 'plz_only_' + plz_n
\* when it is empty, plz_n being the digits of the postal code left-padded
\* with '0' to five and cut to the first five
C14_PresentPlzKey ==
  pc = "keys" =>
    \A k \in 1..Len(df) :
      PaddedPlz(PlzDigits(df[k].Plz)) # <<>> =>
        blocking_keys[k] = PresentPlzKey(PaddedPlz(PlzDigits(df[k].Plz)),
                                         normalize_street_vectorized(df[k].Strasse))

\* a four-digit postal code with a street and a long postal code with
\* letters and no street, under either strategy
C14_Witness ==
  /\ pc = "keys"
  /\ Len(df) = 2
  /\ df[1].Plz = Plz8000 /\ df[1].Strasse = Hauptstr_dot
  /\ blocking_keys[1] = <<"0", "8", "0", "0", "0", "_", "h", "a", "u", "p", "t",
                          "s", "t", "r", "a", "s", "s", "e">>
  /\ df[2].Plz = Plz_CH_123456 /\ df[2].Strasse = <<>>
  /\ blocking_keys[2] = <<"p", "l", "z", "_", "o", "n", "l", "y", "_">> \o Plz12345

\* the key stated for a row without a postal code
AbsentPlzKey(street_n, use_phonetic, vorname_code, name_code) ==
  IF street_n # <<>>
  THEN <<"s", "t", "r", "e", "e", "t", "_", "o", "n", "l", "y", "_">> \o street_n
  ELSE IF use_phonetic
  THEN <<"p", "h", "o", "n", "_">> \o vorname_code \o <<"_">> \o name_code
  ELSE <<"n", "o", "_", "a", "d", "d", "r", "e", "s", "s">>

\* C15: a row whose postal code is absent (null, empty or without a digit)
\* gets the key 'street_only_' + street_n when its street is non-empty; when
\* the street is empty too the key is 'phon_' + code(vorname) + '_' +
\* code(name) with phonetic blocking and 'no_address' without it
C15_AbsentPlzKey ==
  pc = "keys" =>
    \A k \in 1..Len(df) :
      PlzDigits(df[k].Plz) = <<>> =>
        blocking_keys[k] = AbsentPlzKey(normalize_street_vectorized(df[k].Strasse),
                                        cfg.use_phonetic,
                                        get_cologne_phonetic(df[k].Vorname),
                                        get_cologne_phonetic(df[k].Name))

(***************************************************************************)
(* Spec: UltraFastDuplicateChecker.analyze_duplicates                      *)
(***************************************************************************)
MaxFillers == 9
MinActive == 2
MaxActive == 4

\* len(blocks) > 10 selects the process pool
ParallelMinBlocks == 10

DigitChars == <<"0", "1", "2", "3", "4", "5", "6", "7", "8", "9">>

\* two unrelated persons at a postal code of their own: a block without a match
FillerPlz(g) == <<"9", "0", "0", DigitChars[(g \div 10) + 1], DigitChars[(g % 10) + 1]>>

FillerPair(g) ==
  <<Record(<<"A">>, <<"B">>, <<>>, Null, Null, <<>>, <<>>, FillerPlz(g), <<>>),
    Record(<<"C">>, <<"D">>, <<>>, Null, Null, <<>>, <<>>, FillerPlz(g), <<>>)>>

Fillers(n) == Flatten([g \in 1..n |-> FillerPair(g)])

\* the records a run's frame is drawn from, in frame order
RunRecords ==
  <<Record(Karl, Mueller_uml, <<>>, Geb1978, Null, Muellerstrasse_uml, <<"1">>, Plz12345, Bern),
    Record(Karl, Mueller, <<>>, Geb1978, Null, Muellerstrasse_uml, <<"1">>, Plz12345, Bern),
    Record(Mueller, Karl, <<>>, Null, Jg1978, Muellerstrasse_uml, <<"2">>, Plz12345, Bern),
    Record(Karl, Meier, <<>>, Geb1978, Null, Hauptstr_dot, <<"1">>, Plz80000, Bern),
    Record(Karl, Mayr, <<>>, Geb1978, Null, Hauptstr_dot, <<"1">>, Plz80000, Bern)>>

\* the records of RunRecords at the positions in picks, in order
RECURSIVE Pick(_, _)
Pick(picks, k) ==
  IF k > Len(RunRecords) THEN <<>>
  ELSE (IF k \in picks THEN <<RunRecords[k]>> ELSE <<>>) \o Pick(picks, k + 1)

ActiveFrames ==
  {Pick(picks, 1) : picks \in {q \in SUBSET (1..Len(RunRecords)) :
                                 Cardinality(q) >= MinActive /\ Cardinality(q) <= MaxActive}}

\* the blocking strategy of the checker and the block tasks that raise
RunModes ==
  {[use_phonetic |-> TRUE, failing |-> {}],
   [use_phonetic |-> FALSE, failing |-> {}],
   [use_phonetic |-> FALSE, failing |-> {1}]}

DefaultConfidenceThreshold == FracInt(70)
DefaultFuzzyThreshold == Frac(8, 10)

Init ==
  /\ ExportIdle
  /\ \E active \in ActiveFrames, nf \in {0, MaxFillers} : df = active \o Fillers(nf)
  /\ \E use_parallel \in BOOLEAN, mode \in RunModes :
       cfg = [use_parallel |-> use_parallel, use_phonetic |-> mode.use_phonetic,
              confidence_threshold |-> DefaultConfidenceThreshold,
              fuzzy_threshold |-> DefaultFuzzyThreshold,
              failing |-> mode.failing]
  /\ pc = "start"
  /\ blocking_keys = <<>>
  /\ blocks = <<>>
  /\ futures = <<>>
  /\ pending = {}
  /\ all_matches = <<>>
  /\ NormIdle
  /\ RulesIdle
  /\ WorkerIdle
  /\ ScoreIdle

\* all_matches = block_matches: the collected list is overwritten
extend_overwrites(matches, block_matches) == block_matches

\* all_matches.extend(block_matches)
extend(matches, block_matches) == matches \o block_matches

\* the outcome of block task t inside its try block: the worker's list, or
\* nothing when the task raises
TaskMatches(block, t) ==
  IF t \in cfg.failing THEN <<>>
  ELSE process_block_worker(block.rows, cfg.confidence_threshold, cfg.fuzzy_threshold)

\* lines 627-653: the blocks are created, the block tasks prepared and, with
\* the process pool, submitted; an exception of create_blocks leaves
\* analyze_duplicates
AnalyzeStart ==
  /\ pc = "start"
  /\ blocking_keys' = create_blocking_keys_vectorized(df, cfg.use_phonetic)
  /\ df' = IF cfg.use_phonetic THEN WithPhoneticColumns(df) ELSE df
  /\ blocks' = create_blocks(df', blocking_keys', DefaultMaxBlockSize)
  /\ pending' = 1..Len(blocks')
  /\ pc' = IF create_blocks_outcome(blocks') = "raised" THEN "raised"
           ELSE IF cfg.use_parallel /\ Len(blocks') > ParallelMinBlocks THEN "parallel"
           ELSE "sequential"
  /\ futures' = IF pc' = "parallel" THEN [t \in 1..Len(blocks') |-> TaskMatches(blocks'[t], t)] ELSE <<>>
  /\ UNCHANGED <<cfg, all_matches, normVars, ruleVars, workerVars, scoreVars, exportVars>>

\* lines 656-665: the next completed future, in whatever order they complete
CollectFuture ==
  /\ pc = "parallel"
  /\ \E t \in pending :
       /\ all_matches' = extend(all_matches, futures[t])
       /\ pending' = pending \ {t}
  /\ pc' = IF pending' = {} THEN "done" ELSE "parallel"
  /\ UNCHANGED <<df, cfg, blocking_keys, blocks, futures, normVars, ruleVars, workerVars, scoreVars, exportVars>>

\* lines 669-677: the next block of the sequential loop
SequentialBlock ==
  /\ pc = "sequential"
  /\ LET t == CHOOSE m \in pending : \A n \in pending : m <= n
     IN /\ all_matches' = extend(all_matches, TaskMatches(blocks[t], t))
        /\ pending' = pending \ {t}
  /\ pc' = IF pending' = {} THEN "done" ELSE "sequential"
  /\ UNCHANGED <<df, cfg, blocking_keys, blocks, futures, normVars, ruleVars, workerVars, scoreVars, exportVars>>

Next == AnalyzeStart \/ CollectFuture \/ SequentialBlock

Spec == Init /\ [][Next]_vars

UnorderedPair(m) == {m.record_a_idx, m.record_b_idx}

MatchSet(matches) ==
  {[pair |-> UnorderedPair(matches[k]), kind |-> matches[k].match_type,
    confidence |-> matches[k].confidence_score] : k \in 1..Len(matches)}

\* what the sequential loop returns on the blocks of this run
SequentialResult ==
  Flatten([t \in 1..Len(blocks) |->
             process_block_worker(blocks[t].rows, cfg.confidence_threshold, cfg.fuzzy_threshold)])

\* C4: when no block task raises, a finished run returns the same set of
\* matches (pair, kind, confidence) with the process pool, in every completion
\* order, as the sequential loop does
C4_Deterministic ==
  (pc = "done" /\ cfg.failing = {}) => MatchSet(all_matches) = MatchSet(SequentialResult)

\* a parallel run whose first collected matches are those of the last block
\* that has any
C4_Witness ==
  /\ pc = "done" /\ cfg.failing = {} /\ cfg.use_parallel
  /\ Len(blocks) > ParallelMinBlocks
  /\ Len(all_matches) >= 2
  /\ all_matches # SequentialResult
  /\ MatchSet(all_matches) = MatchSet(SequentialResult)

\* C23: the list of matches returned by analyze_duplicates is ordered by
\* non-increasing confidence, whatever the order in which the block tasks
\* complete
C23_SortedByConfidence ==
  pc = "done" =>
    \A k, l \in 1..Len(all_matches) :
      k < l => FracLe(all_matches[l].confidence_score, all_matches[k].confidence_score)

\* C24: a run leaves the caller's DataFrame unchanged, with phonetic blocking
\* enabled or disabled: the same columns and the same values after every
\* step of analyze_duplicates as before it
C24_InputUnchanged == [][df' = df]_vars

\* the original indices of the rows of a block
BlockIndices(block) == {block.rows[n].index : n \in 1..Len(block.rows)}

\* the match joins two rows of the block, and both rows have the block's key
JoinsInside(m, block, keys) ==
  /\ {m.record_a_idx, m.record_b_idx} \subseteq BlockIndices(block)
  /\ keys[m.record_a_idx + 1] = block.key
  /\ keys[m.record_b_idx + 1] = block.key

AllJoinInside(matches, block, keys) ==
  \A k \in 1..Len(matches) : JoinsInside(matches[k], block, keys)

\* every match that the block tasks of the created blocks return joins two
\* rows of its own block
BlocksJoinInside(created, keys) ==
  \A t \in 1..Len(created) :
    AllJoinInside(process_block_worker(created[t].rows, cfg.confidence_threshold, cfg.fuzzy_threshold),
                  created[t], keys)

\* C26: every match returned by analyze_duplicates joins two records that
\* have the same blocking key and lie in the same block; when the frame is
\* blocked with a small max_block_size, so that groups are split, every match
\* of a chunk joins two records of that chunk
C26_MatchesWithinBlock ==
  /\ \A k \in 1..Len(all_matches) :
       /\ blocking_keys[all_matches[k].record_a_idx + 1] = blocking_keys[all_matches[k].record_b_idx + 1]
       /\ \E t \in 1..Len(blocks) : JoinsInside(all_matches[k], blocks[t], blocking_keys)
  /\ pc = "done" =>
       \A mbs \in 2..MaxChunkSize : BlocksJoinInside(create_blocks(df, blocking_keys, mbs), blocking_keys)

SomeChunkMatches(created) ==
  \E t \in 1..Len(created) :
    /\ created[t].chunk # NoChunk
    /\ process_block_worker(created[t].rows, cfg.confidence_threshold, cfg.fuzzy_threshold) # <<>>

\* a finished run over blocks with different keys that returned a match, over
\* a frame whose largest group is split at max_block_size 2 into a chunk with
\* a match
C26_Witness ==
  /\ pc = "done"
  /\ all_matches # <<>>
  /\ \E t, u \in 1..Len(blocks) : blocks[t].key # blocks[u].key
  /\ SomeChunkMatches(create_blocks(df, blocking_keys, 2))

(***************************************************************************)
(* SpecFind: OptimizedDuplicateChecker.find_duplicates over blocks whose   *)
(* find_duplicates_in_block task returns a list of matches or raises       *)
(***************************************************************************)
MaxFindBlocks == 3

\* the confidence scores of the matches a task has found
FoundLists == {<<>>, <<85>>, <<70, 100>>}

\* a block task: the matches it found, and whether it raised after finding them
BlockTasks == [found : FoundLists, raises : BOOLEAN]

InitFind ==
  /\ ExportIdle
  /\ blocks \in UNION {SeqsOfLen(BlockTasks, n) : n \in 0..MaxFindBlocks}
  /\ \E use_parallel \in BOOLEAN : cfg = [use_parallel |-> use_parallel]
  /\ pc = "start"
  /\ df = <<>>
  /\ blocking_keys = <<>>
  /\ futures = <<>>
  /\ pending = {}
  /\ all_matches = <<>>
  /\ NormIdle
  /\ RulesIdle
  /\ WorkerIdle
  /\ ScoreIdle

\* the list find_duplicates_in_block returns for block b
block_matches(b) ==
  [k \in 1..Len(blocks[b].found) |->
     [block |-> b, position |-> k, confidence_score |-> blocks[b].found[k]]]

\* all_matches.sort(key=lambda x: x.confidence_score, reverse=True): stable
RECURSIVE insert_by_confidence(_, _)
insert_by_confidence(sorted, m) ==
  IF sorted = <<>> THEN <<m>>
  ELSE IF Head(sorted).confidence_score >= m.confidence_score
  THEN <<Head(sorted)>> \o insert_by_confidence(Tail(sorted), m)
  ELSE <<m>> \o sorted

RECURSIVE sort_by_confidence(_)
sort_by_confidence(ms) ==
  IF ms = <<>> THEN <<>>
  ELSE insert_by_confidence(sort_by_confidence(SubSeq(ms, 1, Len(ms) - 1)), ms[Len(ms)])

\* lines 228-243: no blocks returns []; otherwise the mode is chosen
FindDuplicatesStart ==
  /\ pc = "start"
  /\ pc' = IF blocks = <<>> THEN "returned"
           ELSE IF cfg.use_parallel /\ Len(blocks) > 1 THEN "parallel"
           ELSE "sequential"
  /\ pending' = 1..Len(blocks)
  /\ UNCHANGED <<df, cfg, blocking_keys, blocks, futures, all_matches,
                 normVars, ruleVars, workerVars, scoreVars, exportVars>>

\* lines 259-266: one future of as_completed; its exception is logged
CollectBlockFuture ==
  /\ pc = "parallel"
  /\ \E b \in pending :
       /\ all_matches' = IF blocks[b].raises THEN all_matches
                         ELSE all_matches \o block_matches(b)
       /\ pending' = pending \ {b}
  /\ UNCHANGED <<df, cfg, pc, blocking_keys, blocks, futures,
                 normVars, ruleVars, workerVars, scoreVars, exportVars>>

\* lines 270-274: the next block of the sequential loop, outside any try
ProcessBlockSequentially ==
  /\ pc = "sequential"
  /\ pending # {}
  /\ LET b == CHOOSE m \in pending : \A n \in pending : m <= n
     IN /\ pc' = IF blocks[b].raises THEN "raised" ELSE "sequential"
        /\ all_matches' = IF blocks[b].raises THEN all_matches
                          ELSE all_matches \o block_matches(b)
        /\ pending' = pending \ {b}
  /\ UNCHANGED <<df, cfg, blocking_keys, blocks, futures,
                 normVars, ruleVars, workerVars, scoreVars, exportVars>>

\* lines 276-282: the sort and the return
FindDuplicatesReturn ==
  /\ pc \in {"parallel", "sequential"}
  /\ pending = {}
  /\ all_matches' = sort_by_confidence(all_matches)
  /\ pc' = "returned"
  /\ UNCHANGED <<df, cfg, blocking_keys, blocks, futures, pending,
                 normVars, ruleVars, workerVars, scoreVars, exportVars>>

NextFind ==
  \/ FindDuplicatesStart
  \/ CollectBlockFuture
  \/ ProcessBlockSequentially
  \/ FindDuplicatesReturn

SpecFind == InitFind /\ [][NextFind]_vars

\* how often the match at position k of block b occurs in the returned list
TimesReturned(b, k) ==
  Cardinality({n \in 1..Len(all_matches) :
                 all_matches[n].block = b /\ all_matches[n].position = k})

\* C20: an exception raised while processing one block never aborts the run,
\* in parallel and in sequential mode: the run returns, and the returned list
\* holds every match of every task that did not fail and no match of a task
\* that failed
C20_FailingBlockSkipped ==
  /\ pc # "raised"
  /\ pc = "returned" =>
       \A b \in 1..Len(blocks) : \A k \in 1..Len(blocks[b].found) :
         TimesReturned(b, k) = IF blocks[b].raises THEN 0 ELSE 1

(***************************************************************************)
(* SpecExport: UltraFastDuplicateChecker.export_results on frames whose    *)
(* rows have set, repeated, empty and null Crefo values                    *)
(***************************************************************************)
MaxExportRows == 3
MaxExportMatches == 2

ExportCrefos == {Null, <<>>, <<"7">>, <<"8">>}

ExportRecords ==
  {[Person(Karl, Mueller, <<>>, Geb1978, Null, <<"1">>, Bern) EXCEPT !.Crefo = c] : c \in ExportCrefos}

ExportFrames == UNION {SeqsOfLen(ExportRecords, n) : n \in 2..MaxExportRows}

\* a MatchResult of the rows at the positions a < b of the frame
ExportMatch(a, b) ==
  [record_a_idx |-> a, record_b_idx |-> b,
   confidence_score |-> IF a = 0 THEN FracInt(100) ELSE FracInt(70),
   match_type |-> IF a = 0 THEN "exact_normal" ELSE "fuzzy_swapped"]

\* the lists of at most MaxExportMatches matches over distinct pairs of n rows
ExportMatchLists(n) ==
  {ms \in UNION {SeqsOfLen({ExportMatch(p[1], p[2]) :
                              p \in {q \in (0..(n - 1)) \X (0..(n - 1)) : q[1] < q[2]}}, len) :
                  len \in 0..MaxExportMatches} :
     \A k, l \in 1..Len(ms) : k # l => ms[k] # ms[l]}

InitExport ==
  /\ df \in ExportFrames
  /\ all_matches \in ExportMatchLists(Len(df))
  /\ pc = "start"
  /\ export_rows = <<>>
  /\ cfg = <<>>
  /\ blocking_keys = <<>>
  /\ blocks = <<>>
  /\ futures = <<>>
  /\ pending = {}
  /\ NormIdle
  /\ RulesIdle
  /\ WorkerIdle
  /\ ScoreIdle

\* str(n) of a row index
RECURSIVE IntStr(_)
IntStr(n) ==
  IF n < 10 THEN <<DigitChars[n + 1]>> ELSE IntStr(n \div 10) \o <<DigitChars[(n % 10) + 1]>>

\* str(record.get('Crefo', '')).strip()
crefo_of(rec) == Strip(PyStr(rec.Crefo))

\* line 714: the two crefos when both are non-empty, else the two row indices
match_id_of(crefo_a, crefo_b, record_a_idx, record_b_idx) ==
  IF crefo_a # <<>> /\ crefo_b # <<>> THEN crefo_a \o <<"_">> \o crefo_b
  ELSE IntStr(record_a_idx) \o <<"_">> \o IntStr(record_b_idx)

\* lines 717-753: the row of one side of a match
export_row(match, match_id, position, index, rec) ==
  [match_id |-> match_id, confidence |-> match.confidence_score, match_type |-> match.match_type,
   position |-> position, index |-> index,
   vorname |-> rec.Vorname, name |-> rec.Name, name2 |-> rec.Name2,
   strasse |-> rec.Strasse, hausnummer |-> rec.HausNummer, plz |-> rec.Plz, ort |-> rec.Ort,
   crefo |-> crefo_of(rec), geburtstag |-> rec.Geburtstag, jahrgang |-> rec.Jahrgang]

\* lines 708-756: row_a and row_b of one match; df.iloc[k] is the row at position k + 1
rows_of_match(frame, match, match_id) ==
  <<export_row(match, match_id, "A", match.record_a_idx, frame[match.record_a_idx + 1]),
    export_row(match, match_id, "B", match.record_b_idx, frame[match.record_b_idx + 1])>>

RECURSIVE build_export_rows(_, _)
build_export_rows(frame, matches) ==
  IF matches = <<>> THEN <<>>
  ELSE rows_of_match(frame, Head(matches),
                     match_id_of(crefo_of(frame[Head(matches).record_a_idx + 1]),
                                 crefo_of(frame[Head(matches).record_b_idx + 1]),
                                 Head(matches).record_a_idx, Head(matches).record_b_idx))
         \o build_export_rows(frame, Tail(matches))

\* export_results(matches, df, filename) with a non-empty list of matches
ExportResults ==
  /\ pc = "start"
  /\ all_matches # <<>>
  /\ export_rows' = build_export_rows(df, all_matches)
  /\ pc' = "exported"
  /\ UNCHANGED <<df, cfg, blocking_keys, blocks, futures, pending, all_matches,
                 normVars, ruleVars, workerVars, scoreVars>>

\* export_results(matches, df, filename) without matches: no table is written
ExportNothing ==
  /\ pc = "start"
  /\ all_matches = <<>>
  /\ pc' = "nothing"
  /\ UNCHANGED <<df, cfg, blocking_keys, blocks, futures, pending, all_matches,
                 normVars, ruleVars, workerVars, scoreVars, exportVars>>

NextExport == ExportResults \/ ExportNothing

SpecExport == InitExport /\ [][NextExport]_vars

\* a crefo is present when it is neither null nor empty after trimming
CrefoPresent(crefo) == crefo # Null /\ Strip(crefo) # <<>>

\* the match_id stated for a match
StatedMatchId(rec_a, rec_b, record_a_idx, record_b_idx) ==
  IF CrefoPresent(rec_a.Crefo) /\ CrefoPresent(rec_b.Crefo)
  THEN Strip(rec_a.Crefo) \o <<"_">> \o Strip(rec_b.Crefo)
  ELSE IntStr(record_a_idx) \o <<"_">> \o IntStr(record_b_idx)

\* the two rows of a match: A then B, with the match's confidence and kind
\* and the stated match_id
StatedRows(row_a, row_b, match, match_id) ==
  /\ row_a.position = "A" /\ row_b.position = "B"
  /\ row_a.index = match.record_a_idx /\ row_b.index = match.record_b_idx
  /\ row_a.confidence = match.confidence_score /\ row_b.confidence = match.confidence_score
  /\ row_a.match_type = match.match_type /\ row_b.match_type = match.match_type
  /\ row_a.match_id = match_id /\ row_b.match_id = match_id

\* C21: export_results writes exactly two consecutive rows per match,
\* position A then B, both with the match's confidence and kind and the same
\* match_id, which is crefo_a + '_' + crefo_b when both records have a crefo
\* and row_index_a + '_' + row_index_b otherwise, a null crefo counting as
\* not present just like an empty one
C21_TwoRowsPerMatch ==
  pc = "exported" =>
    /\ Len(export_rows) = 2 * Len(all_matches)
    /\ \A k \in 1..Len(all_matches) :
         StatedRows(export_rows[2 * k - 1], export_rows[2 * k], all_matches[k],
                    StatedMatchId(df[all_matches[k].record_a_idx + 1],
                                  df[all_matches[k].record_b_idx + 1],
                                  all_matches[k].record_a_idx, all_matches[k].record_b_idx))

\* C22: in the exported table of a list of matches over distinct pairs every
\* match_id occurs on exactly two rows, one with position A and one with
\* position B, for any crefo values, repeated or missing
C22_MatchIdOnTwoRows ==
  pc = "exported" =>
    \A k \in 1..Len(export_rows) :
      /\ Cardinality({n \in 1..Len(export_rows) :
                        export_rows[n].match_id = export_rows[k].match_id}) = 2
      /\ \E n, m \in 1..Len(export_rows) :
           /\ export_rows[n].match_id = export_rows[k].match_id
           /\ export_rows[m].match_id = export_rows[k].match_id
           /\ export_rows[n].position = "A" /\ export_rows[m].position = "B"

(***************************************************************************)
(* SpecOrder: process_block_worker on a block and on a reordering of the   *)
(* same rows                                                               *)
(***************************************************************************)
MaxOrderLen == 3

\* the records an ordered block is drawn from: umlaut spellings and a swapped
\* spelling of one person, two phonetic spellings, a year conflict
OrderRecords ==
  {Person(Karl, Mueller_uml, <<>>, Geb1978, Null, <<"1">>, Bern),
   Person(Karl, Mueller, <<>>, Geb1978, Null, <<"1">>, Bern),
   Person(Mueller, Karl, <<>>, Null, Jg1978, <<"2">>, Bern),
   Person(Karl, Meier, <<>>, Geb1978, Null, <<"1">>, Bern),
   Person(Karl, Mayr, <<>>, Geb1978, Null, <<"1">>, Null),
   Person(Karl, Mueller, <<>>, Null, Jg1998, <<"1">>, Bern)}

OrderBlocks ==
  UNION {{BlockOf(recs) : recs \in SeqsOfLen(OrderRecords, n)} : n \in 2..MaxOrderLen}

\* the threshold under which every stage-2 match is returned
OrderConfidenceThresholds == {FracInt(0)}

\* the orders of n rows
Orders(n) == {p \in [1..n -> 1..n] : \A k, l \in 1..n : p[k] = p[l] => k = l}

\* the rows of the block in the given order, each with its original index
Reordered(block_data, order) == [k \in 1..Len(block_data) |-> block_data[order[k]]]

InitOrder ==
  /\ \E block_data \in OrderBlocks, ct \in OrderConfidenceThresholds :
       wargs = [block_data |-> block_data, confidence_threshold |-> ct,
                fuzzy_threshold |-> DefaultFuzzyThreshold]
  /\ wst = <<>>
  /\ NormIdle
  /\ RulesIdle
  /\ ScoreIdle
  /\ RunIdle
  /\ ExportIdle

\* process_block_worker on the block as it is
RunBlock ==
  /\ wst = <<>>
  /\ wst' = <<[order |-> [k \in 1..Len(wargs.block_data) |-> k],
               matches |-> process_block_worker(wargs.block_data, wargs.confidence_threshold,
                                                wargs.fuzzy_threshold)]>>
  /\ UNCHANGED <<wargs, normVars, ruleVars, scoreVars, runVars, exportVars>>

\* process_block_worker on the same rows in another order
RunReordered ==
  /\ Len(wst) = 1
  /\ \E order \in Orders(Len(wargs.block_data)) :
       wst' = Append(wst, [order |-> order,
                           matches |-> process_block_worker(Reordered(wargs.block_data, order),
                                                            wargs.confidence_threshold,
                                                            wargs.fuzzy_threshold)])
  /\ UNCHANGED <<wargs, normVars, ruleVars, scoreVars, runVars, exportVars>>

NextOrder == RunBlock \/ RunReordered

SpecOrder == InitOrder /\ [][NextOrder]_vars

\* C30: the result of process_block_worker does not depend on the order of
\* the rows of the block: on every reordering of the rows it returns the same
\* set of matches, taken as unordered pairs of row indices with their kind
\* and confidence
C30_OrderIndependent ==
  Len(wst) = 2 => MatchSet(wst[2].matches) = MatchSet(wst[1].matches)

\* a block of three rows, run as it is and in another order, that returns
\* several matches both times, one of them with its two rows the other way
\* round
C30_Witness ==
  /\ Len(wst) = 2
  /\ Len(wargs.block_data) >= 3
  /\ wst[2].order # wst[1].order
  /\ Len(wst[1].matches) >= 2
  /\ \E k \in 1..Len(wst[1].matches), l \in 1..Len(wst[2].matches) :
       /\ wst[1].matches[k].record_a_idx = wst[2].matches[l].record_b_idx
       /\ wst[1].matches[k].record_b_idx = wst[2].matches[l].record_a_idx
  /\ MatchSet(wst[2].matches) = MatchSet(wst[1].matches)

=============================================================================
